---- MODULE Spec2Model ----
(***************************************************************************)
(* Per-call session orchestrator of the voice-ordering gateway.            *)
(*                                                                         *)
(*   TwilioStream  (src/twilioStream.js)   the media leg of one call       *)
(*   server.js                             the registry and the wiring     *)
(*   GeminiSession (src/geminiSession.js)  the model leg of the call       *)
(*   orderManager  (src/unnamed/part_001)  the per-call cart store         *)
(*                                                                         *)
(* One call is modelled.  Every handler runs to its next real suspension   *)
(* point (an await on network or database I/O, or a timer); awaits that    *)
(* resolve in the same microtask drain are part of the step.               *)
(***************************************************************************)
EXTENDS Naturals, Integers, Sequences, FiniteSets, TLC

\* ------------------------------------------------------------------ bounds
MaxMsgs       == 3   \* model-leg messages delivered in one run
MaxTranscript == 2   \* tokens kept in the transcript accumulator
MaxPending    == 1   \* tool batches suspended inside completeOrder at once
MaxPhoneLen   == 3   \* characters of a raw phone value
MaxFrame      == 2   \* bytes of a mu-law frame built from FrameBytes
MaxPcm        == 3   \* samples of a PCM16 buffer built from PcmSamples
MaxOverlap    == 2   \* completeOrder calls in flight at once in SpecOverlap

\* --------------------------------------------------------------- constants
NULL == "null"

\* What sessions.get(callSid) yields when the store has no entry for the
\* call: a value no cart equals (no item is named "null").
NoCart == << [itemName |-> "null", quantity |-> 0, price |-> 0, notes |-> ""] >>

\* The call identifier Twilio puts in the start event.
CallSid == "CA1"

\* process.env.RESTAURANT_TRANSFER_NUMBER when it is configured.
ConfiguredNumber == "+15550100"

\* TRANSFER_PHRASE, as the two tokens a transcription fragment may split it in.
TRANSFER_PHRASE == <<"TRANSFER_TO", "_HUMAN">>

\* Transcript tokens: the two halves of the phrase.  Their order matters to
\* the scan: <<"_HUMAN", "TRANSFER_TO">> does not contain the phrase.
Tokens == {"TRANSFER_TO", "_HUMAN"}

\* String.prototype.includes on token sequences.
Includes(s, p) ==
  \E i \in 1..(Len(s) + 1) :
    /\ i + Len(p) - 1 <= Len(s)
    /\ SubSeq(s, i, i + Len(p) - 1) = p

\* PRICE_MAP (prices in cents), restricted to the items the tool calls of
\* this model name.
PRICE_MAP == [n \in {"Masala Dosa", "Mango Lassi"} |->
                IF n = "Masala Dosa" THEN 1149 ELSE 649]

\* PRICE_MAP is an object literal: PRICE_MAP[name] also finds the members it
\* inherits from Object.prototype, which are not keys of the map.
InheritedNames == {"constructor"}

\* What such a lookup yields: a function, not a number.
NotANumber == -1

\* The value of a property the arguments object does not have.
Undefined == -2

\* The result the catch block of _handleToolCalls substitutes when a call
\* threw, and the result of the branch for a name the router does not know.
BriefError   == "Sorry, there was a brief error. Please try again."
NotAvailable == "Tool is not available."

\* The handlers orderManager exports, and the names _handleToolCalls has a
\* branch for: searchMenu and collectCustomerDetails are imported from
\* orderManager, which does not export them, so both names are undefined
\* and calling them throws a TypeError.
ExportedHandlers == {"manageOrder", "completeOrder"}
RoutedNames_ExportedOnly == ExportedHandlers

RoutedNames      == ExportedHandlers \cup {"searchMenu", "collectCustomerDetails"}

\* ------------------------------------------------------------------ inputs
\* The function calls a toolCall batch may list.
AddCall      == [id |-> "f1", name |-> "manageOrder",
                 args |-> [action |-> "add", itemName |-> "Masala Dosa",
                           quantity |-> 1, price |-> 999, notes |-> ""]]
CompleteCall == [id |-> "f2", name |-> "completeOrder",
                 args |-> [customerName |-> "Ada", phoneNumber |-> "5551234567"]]

Batches == { <<AddCall>>, <<CompleteCall>>, <<AddCall, CompleteCall>> }

\* The other calls of the order scenarios.
LassiCall  == [id |-> "f3", name |-> "manageOrder",
               args |-> [action |-> "add", itemName |-> "Mango Lassi",
                         quantity |-> 1, price |-> 500, notes |-> ""]]
RemoveCall == [id |-> "f4", name |-> "manageOrder",
               args |-> [action |-> "remove", itemName |-> "Masala Dosa",
                         quantity |-> 1, price |-> 999, notes |-> ""]]

\* Calls that break the declared schema or that the router cannot serve: an
\* add without the required quantity, a call of a tool whose handler is not
\* exported, and a call of a tool the router has no branch for.
NoQuantityCall == [id |-> "f5", name |-> "manageOrder",
                   args |-> [action |-> "add", itemName |-> "Masala Dosa",
                             quantity |-> Undefined, price |-> 999, notes |-> ""]]
SearchCall     == [id |-> "f6", name |-> "searchMenu",
                   args |-> [query |-> "dosa"]]
UnknownCall    == [id |-> "f7", name |-> "cancelOrder",
                   args |-> [reason |-> "none"]]

\* A toolCall message that lists the calls of batch b and nothing else.
ToolMsg(b) ==
  [ interrupted  |-> FALSE,
    audio        |-> <<>>,
    toolCall     |-> b,
    text         |-> <<>>,
    turnComplete |-> FALSE ]

\* manageOrder arguments: a name of the map, a name that is not in it, and a
\* name Object.prototype defines; two model-supplied prices.
CartArgs ==
  { a \in [ action   : {"add", "remove"},
            itemName : {"Masala Dosa", "Chef Special", "constructor"},
            quantity : {1, 2},
            price    : {999, 500},
            notes    : {"", "no onion"} ] :
      a.action = "remove" => (a.quantity = 1 /\ a.price = 999 /\ a.notes = "") }

\* A toolCall message that lists one manageOrder call.
CartMsg(a) ==
  [ interrupted  |-> FALSE,
    audio        |-> <<>>,
    toolCall     |-> << [id |-> "f1", name |-> "manageOrder", args |-> a] >>,
    text         |-> <<>>,
    turnComplete |-> FALSE ]

\* Output-transcription fragments.
Fragments == { <<"TRANSFER_TO">>, <<"_HUMAN">>, <<"TRANSFER_TO", "_HUMAN">> }

\* A model-leg message: any subset of the vocabulary.
\*   audio: the inlineData parts of modelTurn ("ok" converts, "bad" does not)
Messages ==
  [ interrupted  : BOOLEAN,
    audio        : { <<>>, <<"ok">>, <<"bad">> },
    toolCall     : { <<>> } \cup Batches,
    text         : { <<>> } \cup Fragments,
    turnComplete : BOOLEAN ]

\* No handleManageOrder call was made yet.
NoOp == [args   |-> [action |-> "none", itemName |-> "", quantity |-> 0,
                     price |-> 0, notes |-> ""],
         before |-> NoCart,
         after  |-> NoCart,
         result |-> ""]

\* No handleCompleteOrder call returned in the last step.
NoOrder == [result  |-> "none",
            orderId  |-> NULL,
            attempts |-> 0,
            dbCalls  |-> 0,
            begin    |-> NoCart,
            after    |-> NoCart,
            quiet    |-> TRUE,
            custOk   |-> FALSE,
            itemsOk  |-> FALSE,
            timer    |-> FALSE]

\* No tool batch came to its end in the last step.
NoBatch == [batch |-> <<>>, dispatched |-> <<>>, sends |-> 0, sent |-> <<>>,
            pushed |-> <<>>, warned |-> {}, threw |-> {},
            cartBefore |-> NoCart, cartAfter |-> NoCart]

VARIABLES
  \* ---- environment of the media leg (the ws socket)
  wsState,        \* "open" | "closed"  (ws.readyState is / is not OPEN)
  closeDelivered, \* the socket's close event has been emitted
  wsErrored,      \* the socket's error event has been emitted
  \* ---- TwilioStream fields
  callSid, isStarted, isClosed, isTransfer, callDbRecord,
  startPc,        \* _onStart: "none" | "awaitCreate" | "done"
  closePc,        \* _handleClose: "none" | "awaitWrite" | "done"
  transferPc,     \* executeTransfer: "idle" | "rejected" | "rest" | "restFailed" | "done"
  \* ---- server.js
  registry,       \* keys of the sessions Map
  \* ---- calls table: terminal status writes issued for the call, in order
  termWrites,
  \* ---- GeminiSession fields
  gsCreated, isActive, session, toolCallInProgress, wasInterrupted,
  agentSpeaking, orderInProgress, transferTriggered, outputTranscript,
  retryCount, retrying, greetingSent,
  \* ---- environment of the model leg
  conn,           \* "none" | "connecting" | "open" | "closing" | "closed"
  startAwait,     \* start() is suspended on `await this.sessionPromise`
  greetTimer, retryTimer, deferTimer, farewellTimer,  \* a timer is pending
  pending,        \* tool batches suspended inside handleCompleteOrder
  \* ---- orderManager
  cart,           \* NoCart when the store has no session for the call
  \* ---- configuration
  transferNumber, \* TRANSFER_NUMBER: ConfiguredNumber or NULL (unset)
  \* ---- observation of the last step and of the history
  fx,             \* what the last step did (calls made, frames sent)
  transferArg,    \* argument of the last onTransferRequested call
  msgCount,       \* model-leg messages delivered so far
  intrPending,    \* an interrupted message was received and no message with
                  \* turnComplete has been received since
  transferCalls,  \* invocations of onTransferRequested
  ttRises,        \* false -> true transitions of transferTriggered
  closeSawTransfer, \* isTransfer as _handleClose read it
  closeAfterError,  \* the close that ran _handleClose followed a socket error
  lastOp,           \* the last handleManageOrder call: arguments, cart before
                    \* and after, value returned
  lastOrder,        \* the handleCompleteOrder call that returned in the last
                    \* step: value returned, attempts made, cart at its
                    \* begin and after it
  lastBatch,        \* the tool batch that came to its end in the last step:
                    \* calls listed, calls dispatched, responses sent
  \* ---- persistence (orders and order_items tables)
  orders,           \* order rows inserted, each with its item rows
  apologies,        \* carts of the invocations that returned the apology
  \* ---- observation of the model leg's life
  connects,         \* ai.live.connect calls made for the call
  closeCalled,      \* GeminiSession.close() was called: "no", or "idle" /
                    \* "deferred" as orderInProgress was false / true
  cleanups,         \* _cleanup calls that went past the isActive check
  \* ---- the pure functions: argument and value of the last application
  phoneRaw, phoneOut,                    \* sanitizePhone
  frameIn, frameRe, frameOut, frameOutRe, \* the mu-law codec
  pcmIn, pcmOut                           \* upsample8kTo16k

tsVars   == <<callSid, isStarted, isClosed, isTransfer, callDbRecord,
              startPc, closePc, transferPc>>
wsVars   == <<wsState, closeDelivered, wsErrored>>
flagVars == <<toolCallInProgress, wasInterrupted, agentSpeaking,
              orderInProgress, transferTriggered, outputTranscript>>
lifeVars == <<gsCreated, isActive, session, retryCount, retrying, greetingSent,
              conn, startAwait, greetTimer, retryTimer>>
histVars == <<transferArg, msgCount, intrPending, transferCalls, ttRises,
              closeSawTransfer, closeAfterError>>

obsVars  == <<lastOp, orders, apologies>>
lifeObs  == <<connects, closeCalled, cleanups>>
phoneVars == <<phoneRaw, phoneOut>>
frameVars == <<frameIn, frameRe, frameOut, frameOutRe, pcmIn, pcmOut>>

vars == <<wsState, closeDelivered, wsErrored,
          callSid, isStarted, isClosed, isTransfer, callDbRecord,
          startPc, closePc, transferPc, registry, termWrites,
          gsCreated, isActive, session, toolCallInProgress, wasInterrupted,
          agentSpeaking, orderInProgress, transferTriggered, outputTranscript,
          retryCount, retrying, greetingSent,
          conn, startAwait, greetTimer, retryTimer, deferTimer, farewellTimer,
          pending, cart, transferNumber,
          fx, transferArg, msgCount, intrPending, transferCalls, ttRises,
          closeSawTransfer, closeAfterError, lastOp, lastOrder, lastBatch,
          orders, apologies, connects, closeCalled, cleanups,
          phoneRaw, phoneOut, frameIn, frameRe, frameOut, frameOutRe,
          pcmIn, pcmOut>>

\* TwilioStream constructor, GeminiSession constructor, empty registry.
Init ==
  /\ wsState = "open" /\ closeDelivered = FALSE /\ wsErrored = FALSE
  /\ callSid = NULL /\ isStarted = FALSE /\ isClosed = FALSE
  /\ isTransfer = FALSE /\ callDbRecord = NULL
  /\ startPc = "none" /\ closePc = "none" /\ transferPc = "idle"
  /\ registry = {}
  /\ termWrites = <<>>
  /\ gsCreated = FALSE /\ isActive = FALSE /\ session = NULL
  /\ toolCallInProgress = FALSE /\ wasInterrupted = FALSE
  /\ agentSpeaking = FALSE /\ orderInProgress = FALSE
  /\ transferTriggered = FALSE /\ outputTranscript = <<>>
  /\ retryCount = 0 /\ retrying = FALSE /\ greetingSent = FALSE
  /\ conn = "none" /\ startAwait = FALSE
  /\ greetTimer = FALSE /\ retryTimer = FALSE
  /\ deferTimer = FALSE /\ farewellTimer = FALSE
  /\ pending = <<>>
  /\ cart = NoCart
  /\ transferNumber \in {ConfiguredNumber, NULL}
  /\ fx = {} /\ transferArg = NULL /\ msgCount = 0 /\ intrPending = FALSE
  /\ transferCalls = 0 /\ ttRises = 0
  /\ closeSawTransfer = FALSE /\ closeAfterError = FALSE
  /\ lastOp = NoOp /\ lastOrder = NoOrder /\ lastBatch = NoBatch
  /\ orders = {} /\ apologies = {}
  /\ connects = 0 /\ closeCalled = "no" /\ cleanups = 0
  /\ phoneRaw = <<>> /\ phoneOut = <<>>
  /\ frameIn = <<>> /\ frameRe = <<>> /\ frameOut = <<>> /\ frameOutRe = <<>>
  /\ pcmIn = <<>> /\ pcmOut = <<>>

\* ======================================================================
\* orderManager
\* ======================================================================

\* Index of the first cart entry named n, 0 when there is none (Array.find).
FindItem_NeverFound(c, n) == 0

FindItem(c, n) ==
  IF \E i \in 1..Len(c) : c[i].itemName = n
    THEN CHOOSE i \in 1..Len(c) :
           /\ c[i].itemName = n
           /\ \A j \in 1..(i - 1) : c[j].itemName # n
    ELSE 0

\* Array.filter(i => i.itemName !== n)
FilterOut_DropsAll(c, n) == <<>>

RECURSIVE FilterOut(_, _)
FilterOut(c, n) ==
  IF c = <<>> THEN <<>>
  ELSE IF Head(c).itemName = n THEN FilterOut(Tail(c), n)
  ELSE <<Head(c)>> \o FilterOut(Tail(c), n)

\* correctPrice: PRICE_MAP[itemName] when that lookup is not undefined, else
\* the price the model supplied.
CorrectPrice(args) ==
  IF args.itemName \in DOMAIN PRICE_MAP THEN PRICE_MAP[args.itemName]
  ELSE IF args.itemName \in InheritedNames THEN NotANumber
  ELSE args.price

\* existing.notes = notes || existing.notes
MergedNotes_AlwaysNew(new, old) == new

MergedNotes(new, old) == IF new # "" THEN new ELSE old

\* handleManageOrder: the cart after the call (c is the session's cart, NoCart
\* when the store has no session: the call then changes nothing).
handleManageOrder(c, args) ==
  IF c = NoCart THEN c
  ELSE IF args.action = "add" THEN
    LET k == FindItem(c, args.itemName) IN
      IF k # 0
        THEN [c EXCEPT ![k] = [@ EXCEPT
                 !.quantity = args.quantity,
                 !.price    = CorrectPrice(args),
                 !.notes    = MergedNotes(args.notes, @)]]
        ELSE Append(c, [itemName |-> args.itemName,
                        quantity |-> args.quantity,
                        price    |-> CorrectPrice(args),
                        notes    |-> args.notes])
  ELSE IF args.action = "remove" THEN FilterOut(c, args.itemName)
  ELSE c

\* The value handleManageOrder returns.
ManageOrderResult(c) ==
  IF c = NoCart THEN "Error: session not found"
  ELSE "Cart updated successfully."

\* TAX_RATE, in hundredths of a percent (0.0825).
TAX_RATE == 825

\* cart.reduce((s, i) => s + i.price * i.quantity, 0), in cents; not a
\* number as soon as one price is not a number or one quantity is undefined.
RECURSIVE Subtotal(_)
Subtotal(c) ==
  IF c = <<>> THEN 0
  ELSE IF \/ Head(c).price = NotANumber
          \/ Head(c).quantity = Undefined
          \/ Subtotal(Tail(c)) = NotANumber
    THEN NotANumber
  ELSE Head(c).price * Head(c).quantity + Subtotal(Tail(c))

\* Math.round(subtotal * (1 + TAX_RATE) * 100) / 100, in cents.  Math.round
\* rounds a half up.
OrderTotal_NoTax(c) == Subtotal(c)

OrderTotal(c) ==
  IF Subtotal(c) = NotANumber THEN NotANumber
  ELSE (Subtotal(c) * (10000 + TAX_RATE) + 5000) \div 10000

\* cart.map(item => ({item_name, quantity, unit_price, customizations}))
OrderItems(c) ==
  [k \in 1..Len(c) |-> [item_name  |-> c[k].itemName,
                        quantity   |-> c[k].quantity,
                        unit_price |-> c[k].price,
                        notes      |-> c[k].notes]]

\* withRetry's maxRetries.
MaxAttempts == 3

\* handleCompleteOrder returns at once, without any database call, when the
\* store has no session for the call or the cart is empty.
CompleteOrderImmediate_NoSessionOnly(c) == c = NoCart

CompleteOrderImmediate(c) == c = NoCart \/ c = <<>>

\* ======================================================================
\* server.js: sanitizePhone
\* ======================================================================

\* Characters of a raw phone value: a digit, a plus, a parenthesis, two
\* characters of XML markup, the space, the tab and the line feed.
Chars == {"5", "+", "(", "<", "&", " ", "TAB", "LF"}

\* The characters the class \s matches, of those.
Whitespace == {" ", "TAB", "LF"}

\* The characters the negated class [^0-9+\-()\s] does not match: the ones
\* replace() keeps.
KeptChars_SpaceOnly == {"5", "+", "("} \cup {" "}

KeptChars == {"5", "+", "("} \cup Whitespace

\* raw.replace(/[^0-9+\-()\s]/g, '')
RECURSIVE StripOthers(_)
StripOthers(raw) ==
  IF raw = <<>> THEN <<>>
  ELSE IF Head(raw) \in KeptChars THEN <<Head(raw)>> \o StripOthers(Tail(raw))
  ELSE StripOthers(Tail(raw))

\* String.prototype.trim: white space is removed from both ends.
RECURSIVE TrimStart(_)
TrimStart(str) ==
  IF str # <<>> /\ Head(str) \in Whitespace THEN TrimStart(Tail(str)) ELSE str

RECURSIVE TrimEnd(_)
TrimEnd(str) ==
  IF str # <<>> /\ str[Len(str)] \in Whitespace
    THEN TrimEnd(SubSeq(str, 1, Len(str) - 1))
    ELSE str

Trim(str) == TrimEnd(TrimStart(str))

\* The literal 'unknown'.
Unknown == <<"u", "n", "k", "n", "o", "w", "n">>

\* sanitizePhone(raw), raw a string.
sanitizePhone(raw) ==
  LET cleaned == Trim(StripOthers(raw)) IN
    IF cleaned = <<>> THEN Unknown ELSE cleaned

\* The raw values: every string of at most MaxPhoneLen characters.
RawPhones == UNION { [1..n -> Chars] : n \in 0..MaxPhoneLen }

\* ======================================================================
\* audioBridge.js: the mu-law codec
\* ======================================================================

\* MULAW_DECODE_TABLE[i]: the inverted byte is split in sign, exponent and
\* mantissa; ((mantissa << 1) + 33) << (exponent + 2), minus 33.
MulawDecode_Bias132(i) ==
  LET byte     == 255 - i
      sign     == byte \div 128
      exponent == (byte \div 16) % 8
      mantissa == byte % 16
      sample   == ((2 * mantissa + 33) * 2^(exponent + 2)) - 132
  IN IF sign = 1 THEN 0 - sample ELSE sample

MulawDecode(i) ==
  LET byte     == 255 - i
      sign     == byte \div 128
      exponent == (byte \div 16) % 8
      mantissa == byte % 16
      sample   == ((2 * mantissa + 33) * 2^(exponent + 2)) - 33
  IN IF sign = 1 THEN 0 - sample ELSE sample

\* mulawToPcm16(mulawBytes)
mulawToPcm16(bytes) == [k \in 1..Len(bytes) |-> MulawDecode(bytes[k])]

\* The loop of pcm16ToMulaw that finds the most significant set bit.
RECURSIVE Exponent(_, _, _)
Exponent(sample, exponent, expMask) ==
  IF exponent > 0 /\ (sample \div expMask) % 2 = 0
    THEN Exponent(sample, exponent - 1, expMask \div 2)
    ELSE exponent

\* pcm16ToMulaw for one sample of the Int16 range.
MulawEncode(x) ==
  LET sign     == IF x < 0 THEN 128 ELSE 0
      mag      == IF x < 0 THEN (IF x = -32768 THEN 32767 ELSE 0 - x) ELSE x
      biased   == IF mag + 33 < 32767 THEN mag + 33 ELSE 32767
      exponent == Exponent(biased, 7, 16384)
      mantissa == (biased \div 2^(exponent + 3)) % 16
  IN 255 - (sign + exponent * 16 + mantissa)

\* pcm16ToMulaw(pcm16)
pcm16ToMulaw(pcm) == [k \in 1..Len(pcm) |-> MulawEncode(pcm[k])]

\* upsample8kTo16k(pcm8k): each sample, then its integer average with the
\* next one (the last sample is held).  (a + b) >> 1 is the floor of the
\* half sum.
upsample8kTo16k_ZeroTail(pcm) ==
  [k \in 1..(2 * Len(pcm)) |->
     LET i    == (k + 1) \div 2
         next == IF i + 1 <= Len(pcm) THEN pcm[i + 1] ELSE 0
     IN IF k % 2 = 1 THEN pcm[i] ELSE (pcm[i] + next) \div 2]

upsample8kTo16k(pcm) ==
  [k \in 1..(2 * Len(pcm)) |->
     LET i    == (k + 1) \div 2
         next == IF i + 1 <= Len(pcm) THEN pcm[i + 1] ELSE pcm[i]
     IN IF k % 2 = 1 THEN pcm[i] ELSE (pcm[i] + next) \div 2]

\* twilioAudioToGemini on the decoded bytes of the payload.
twilioAudioToGemini(bytes) == upsample8kTo16k(mulawToPcm16(bytes))

\* The frames: every single byte, and the frames of 2..MaxFrame bytes over
\* the extreme code words.
FrameBytes == {0, 127, 128, 255}

Frames ==
  [1..1 -> 0..255] \cup UNION { [1..n -> FrameBytes] : n \in 2..MaxFrame }

\* PCM16 buffers: the ends of the Int16 range, zero, and small samples of
\* both signs and both parities.
PcmSamples == {-32768, -3, -2, 0, 1, 32767}

PcmBuffers == UNION { [1..n -> PcmSamples] : n \in 1..MaxPcm }

\* ======================================================================
\* GeminiSession: teardown
\* ======================================================================

\* _cleanup: the values of isActive, session, conn and cart after the call.
\* session.close() is called only on a non-null handle; deleteSession drops
\* the cart; onSessionEnded is the empty function server.js passes.
Cleanup ==
  IF ~isActive
    THEN [isActive |-> isActive, session |-> session, conn |-> conn,
          cart |-> cart, cleanups |-> cleanups]
    ELSE [isActive |-> FALSE,
          cleanups |-> cleanups + 1,
          session  |-> NULL,
          conn     |-> IF session # NULL /\ conn = "open" THEN "closing" ELSE conn,
          cart     |-> NoCart]

cleanVars == <<isActive, session, conn, cart, cleanups>>

ApplyCleanup ==
  /\ isActive' = Cleanup.isActive
  /\ session'  = Cleanup.session
  /\ conn'     = Cleanup.conn
  /\ cart'     = Cleanup.cart
  /\ cleanups' = Cleanup.cleanups

\* GeminiSession.close(): deferred by the 8 s timer while an order is in
\* flight, immediate otherwise.
CloseSession_Immediate ==
  /\ closeCalled' = IF orderInProgress THEN "deferred" ELSE "idle"
  /\ ApplyCleanup /\ UNCHANGED deferTimer

CloseSession ==
  /\ closeCalled' = IF orderInProgress THEN "deferred" ELSE "idle"
  /\ IF orderInProgress
       THEN deferTimer' = TRUE /\ UNCHANGED cleanVars
       ELSE ApplyCleanup /\ UNCHANGED deferTimer

\* server.js onCallEnded(sid): close the call's GeminiSession when the
\* registry has an entry for sid, then delete the entry.
OnCallEnded(sid) ==
  /\ IF sid # NULL /\ sid \in registry
       THEN CloseSession
       ELSE UNCHANGED <<deferTimer, isActive, session, conn, cart, closeCalled,
                        cleanups>>
  /\ registry' = IF sid # NULL THEN registry \ {sid} ELSE registry

endVars == <<registry, deferTimer, isActive, session, conn, cart, closeCalled,
            cleanups>>

\* ======================================================================
\* TwilioStream
\* ======================================================================

\* The status _handleClose writes for a started call that was not transferred.
CloseStatus(source) ==
  IF source = "ws_error" THEN "failed" ELSE "completed"

\* _handleClose(source).  afterErr: the socket emitted error before this close.
HandleClose(source, afterErr) ==
  IF isClosed
    THEN UNCHANGED <<isClosed, closePc, termWrites, closeSawTransfer,
                     closeAfterError, registry, deferTimer, isActive, session,
                     conn, cart, closeCalled, cleanups>>
    ELSE
      /\ isClosed' = TRUE
      /\ closeSawTransfer' = isTransfer
      /\ closeAfterError' = afterErr
      /\ IF isStarted /\ callSid # NULL /\ ~isTransfer
           THEN \* await failCallRecord / completeCallRecord
                /\ termWrites' = Append(termWrites, CloseStatus(source))
                /\ closePc' = "awaitWrite"
                /\ UNCHANGED endVars
           ELSE \* nothing awaited: onCallEnded runs in the same step
                /\ UNCHANGED termWrites
                /\ closePc' = "done"
                /\ OnCallEnded(callSid)

\* 'start' event, first half of _onStart: the fields are set and
\* createCallRecord is awaited.  sid is msg.start.callSid (NULL when absent).
\* Without a callSid createCallRecord rejects at once and onCallStarted runs
\* in the same step.
OnStart(sid) ==
  /\ wsState = "open" /\ startPc = "none"
  /\ callSid' = sid
  /\ isStarted' = TRUE
  /\ IF sid = NULL
       THEN /\ startPc' = "done"
            /\ registry' = registry \cup {sid}
            /\ gsCreated' = TRUE
            /\ cart' = <<>>
            /\ conn' = "connecting"
            /\ startAwait' = TRUE
            /\ connects' = connects + 1
       ELSE /\ startPc' = "awaitCreate"
            /\ UNCHANGED <<registry, gsCreated, cart, conn, startAwait, connects>>
  /\ fx' = {} /\ lastOrder' = NoOrder /\ lastBatch' = NoBatch
  /\ UNCHANGED <<wsVars, isClosed, isTransfer, callDbRecord, closePc,
                 transferPc, termWrites, isActive, session, flagVars,
                 retryCount, retrying, greetingSent, greetTimer, retryTimer,
                 deferTimer, farewellTimer, pending, transferNumber, obsVars, closeCalled, cleanups, phoneVars, frameVars, histVars>>

\* Second half of _onStart: createCallRecord settled (ok or thrown), then
\* server.js onCallStarted: registry entry, new GeminiSession, start() up to
\* its await (createSession, ai.live.connect).
OnStartResume(ok) ==
  /\ startPc = "awaitCreate"
  /\ startPc' = "done"
  /\ callDbRecord' = IF ok THEN "row1" ELSE NULL
  /\ registry' = registry \cup {callSid}
  /\ gsCreated' = TRUE
  /\ cart' = <<>>
  /\ conn' = "connecting"
  /\ startAwait' = TRUE
  /\ connects' = connects + 1
  /\ fx' = {} /\ lastOrder' = NoOrder /\ lastBatch' = NoBatch
  /\ UNCHANGED <<wsVars, callSid, isStarted, isClosed, isTransfer, closePc,
                 transferPc, termWrites, isActive, session, flagVars,
                 retryCount, retrying, greetingSent, greetTimer, retryTimer,
                 deferTimer, farewellTimer, pending, transferNumber, obsVars, closeCalled, cleanups, phoneVars, frameVars, histVars>>

\* GeminiSession.onAudio forwards the chunk (sendRealtimeInput) iff this holds.
CanForwardAudio_NoToolGate == isActive /\ session # NULL

CanForwardAudio == isActive /\ session # NULL /\ ~toolCallInProgress

\* server.js onAudioReady: what a converted chunk causes.
OnAudioReady ==
  IF callSid = NULL \/ callSid \notin registry THEN {}
  ELSE {"onAudio"} \cup (IF CanForwardAudio THEN {"rtInput"} ELSE {})

\* _onMedia returns before any conversion iff this holds: the start event
\* was not processed yet, or the event carries no payload.
DropsMedia_NoStartCheck(kind) == kind = "missing"

DropsMedia(kind) == ~isStarted \/ kind = "missing"

\* 'media' event, _onMedia.  kind: the payload is "ok", "missing" or "bad"
\* (twilioAudioToGemini throws).
OnMedia(kind) ==
  /\ wsState = "open"
  /\ lastOrder' = NoOrder /\ lastBatch' = NoBatch
  /\ fx' = {"media"} \cup
           (IF DropsMedia(kind) \/ kind = "bad" THEN {}
            ELSE {"converted"} \cup OnAudioReady)
  /\ UNCHANGED <<wsVars, tsVars, registry, termWrites, lifeVars, flagVars,
                 deferTimer, farewellTimer, pending, cart, transferNumber, obsVars, lifeObs, phoneVars, frameVars,
                 histVars>>

\* 'stop' event: _onStop -> _handleClose('stop_event').  Twilio sends stop
\* after start, on a socket that is still open.
OnStop ==
  /\ wsState = "open" /\ startPc # "none"
  /\ HandleClose("stop_event", FALSE)
  /\ fx' = {} /\ lastOrder' = NoOrder /\ lastBatch' = NoBatch
  /\ UNCHANGED <<wsVars, callSid, isStarted, isTransfer, callDbRecord, startPc,
                 transferPc, gsCreated, flagVars, retryCount, retrying,
                 greetingSent, startAwait, greetTimer, retryTimer,
                 farewellTimer, pending, transferNumber, obsVars, connects, phoneVars, frameVars,
                 transferArg, msgCount, intrPending, transferCalls, ttRises>>

\* The socket's error event: _handleWsError only logs.
WsError ==
  /\ wsState = "open"
  /\ wsState' = "closed"
  /\ wsErrored' = TRUE
  /\ fx' = {} /\ lastOrder' = NoOrder /\ lastBatch' = NoBatch
  /\ UNCHANGED <<closeDelivered, tsVars, registry, termWrites, lifeVars,
                 flagVars, deferTimer, farewellTimer, pending, cart,
                 transferNumber, obsVars, lifeObs, phoneVars, frameVars, histVars>>

\* The socket's close event: the constructor wires it to
\* _handleClose('ws_close'), also when an error event came first.
WsClose ==
  /\ ~closeDelivered
  /\ closeDelivered' = TRUE
  /\ wsState' = "closed"
  /\ HandleClose("ws_close", wsErrored)
  /\ fx' = {} /\ lastOrder' = NoOrder /\ lastBatch' = NoBatch
  /\ UNCHANGED <<wsErrored, callSid, isStarted, isTransfer, callDbRecord,
                 startPc, transferPc, gsCreated, flagVars, retryCount, retrying,
                 greetingSent, startAwait, greetTimer, retryTimer,
                 farewellTimer, pending, transferNumber, obsVars, connects, phoneVars, frameVars,
                 transferArg, msgCount, intrPending, transferCalls, ttRises>>

\* _handleClose after its awaited status write settled (errors are logged
\* and swallowed): onCallEnded.
CloseResume ==
  /\ closePc = "awaitWrite"
  /\ closePc' = "done"
  /\ OnCallEnded(callSid)
  /\ fx' = {} /\ lastOrder' = NoOrder /\ lastBatch' = NoBatch
  /\ UNCHANGED <<wsVars, callSid, isStarted, isClosed, isTransfer, callDbRecord,
                 startPc, transferPc, termWrites, gsCreated, flagVars,
                 retryCount, retrying, greetingSent, startAwait, greetTimer,
                 retryTimer, farewellTimer, pending, transferNumber, obsVars, connects, phoneVars, frameVars, histVars>>

\* executeTransfer(number) up to its first await: "rest" when the REST call
\* was issued, "rejected" when a precondition threw.  (The Twilio
\* credentials are taken as configured.)
TransferEntry(number) ==
  IF number = NULL \/ callSid = NULL \/ isClosed THEN "rejected" ELSE "rest"

\* isTransfer after the REST call failed (the catch block).
IsTransferAfterRestFailure_NoRollback == TRUE

IsTransferAfterRestFailure == FALSE

\* executeTransfer: the REST call succeeded; escalateCallRecord is issued
\* (its own failure is logged and swallowed).
TransferRestOk ==
  /\ transferPc = "rest"
  /\ transferPc' = "done"
  /\ termWrites' = Append(termWrites, "escalated")
  /\ fx' = {} /\ lastOrder' = NoOrder /\ lastBatch' = NoBatch
  /\ UNCHANGED <<wsVars, callSid, isStarted, isClosed, isTransfer, callDbRecord,
                 startPc, closePc, registry, lifeVars, flagVars, deferTimer,
                 farewellTimer, pending, cart, transferNumber, obsVars, lifeObs, phoneVars, frameVars, histVars>>

\* executeTransfer: the REST call failed; the flag is rolled back and the
\* error re-thrown.
TransferRestFail ==
  /\ transferPc = "rest"
  /\ transferPc' = "restFailed"
  /\ isTransfer' = IsTransferAfterRestFailure
  /\ fx' = {} /\ lastOrder' = NoOrder /\ lastBatch' = NoBatch
  /\ UNCHANGED <<wsVars, callSid, isStarted, isClosed, callDbRecord,
                 startPc, closePc, registry, termWrites, lifeVars, flagVars,
                 deferTimer, farewellTimer, pending, cart, transferNumber, obsVars, lifeObs, phoneVars, frameVars,
                 histVars>>

\* ======================================================================
\* GeminiSession: connection life cycle
\* ======================================================================

\* The close code of the early-open race, and the reconnect budget.
AbnormalClose == 1011
MaxRetries    == 2

\* The close codes the model leg is closed with: the abnormal one and a
\* normal closure.
CloseCodes == {AbnormalClose, 1000}

\* callbacks.onopen: the leg becomes active and the 500 ms greeting timer
\* is armed.
GsOpen ==
  /\ conn = "connecting"
  /\ conn' = "open"
  /\ isActive' = TRUE
  /\ greetTimer' = TRUE
  /\ fx' = {} /\ lastOrder' = NoOrder /\ lastBatch' = NoBatch
  /\ UNCHANGED <<wsVars, tsVars, registry, termWrites, gsCreated, session,
                 flagVars, retryCount, retrying, greetingSent, startAwait,
                 retryTimer, deferTimer, farewellTimer, pending, cart,
                 transferNumber, obsVars, lifeObs, phoneVars, frameVars, histVars>>

\* start() resumes from `await this.sessionPromise` once the connection
\* opened: this.session is the live handle.
StartResume ==
  /\ startAwait /\ conn \notin {"connecting", "none"}
  /\ startAwait' = FALSE
  /\ session' = "S"
  /\ fx' = {} /\ lastOrder' = NoOrder /\ lastBatch' = NoBatch
  /\ UNCHANGED <<wsVars, tsVars, registry, termWrites, gsCreated, isActive,
                 flagVars, retryCount, retrying, greetingSent, conn,
                 greetTimer, retryTimer, deferTimer, farewellTimer, pending,
                 cart, transferNumber, obsVars, lifeObs, phoneVars, frameVars, histVars>>

\* ai.live.connect rejects: the catch block of start() runs _cleanup.
ConnectFail ==
  /\ startAwait /\ conn = "connecting"
  /\ startAwait' = FALSE
  /\ isActive' = Cleanup.isActive
  /\ session'  = Cleanup.session
  /\ cart'     = Cleanup.cart
  /\ cleanups' = Cleanup.cleanups
  /\ conn' = "closed"
  /\ fx' = {} /\ lastOrder' = NoOrder /\ lastBatch' = NoBatch
  /\ UNCHANGED <<wsVars, tsVars, registry, termWrites, gsCreated, flagVars,
                 retryCount, retrying, greetingSent, greetTimer, retryTimer,
                 deferTimer, farewellTimer, pending, transferNumber, obsVars, connects, closeCalled, phoneVars, frameVars, histVars>>

\* The timer callback of onopen, and the continuation it attaches to
\* sessionPromise, go on to send the greeting iff this holds.
SendsGreeting_Always == TRUE

SendsGreeting == isActive

\* The 500 ms timer armed by onopen: the greeting is injected if the leg is
\* still active.
GreetTimerFire ==
  /\ greetTimer /\ ~startAwait
  /\ greetTimer' = FALSE
  /\ greetingSent' = (greetingSent \/ SendsGreeting)
  /\ lastOrder' = NoOrder /\ lastBatch' = NoBatch
  /\ fx' = IF SendsGreeting THEN {"greeting"} ELSE {}
  /\ UNCHANGED <<wsVars, tsVars, registry, termWrites, gsCreated, isActive,
                 session, flagVars, retryCount, retrying, conn, startAwait,
                 retryTimer, deferTimer, farewellTimer, pending, cart,
                 transferNumber, obsVars, lifeObs, phoneVars, frameVars, histVars>>

\* callbacks.onclose retries (re-runs start() after 1 s) iff this holds.
ShouldRetry_NoBudget(code) ==
  code = AbnormalClose /\ ~greetingSent

ShouldRetry(code) ==
  code = AbnormalClose /\ ~greetingSent /\ retryCount < MaxRetries

\* callbacks.onclose(code).
GsClose(code) ==
  /\ conn \in {"open", "closing"} /\ ~startAwait
  /\ IF ShouldRetry(code)
       THEN /\ retryCount' = retryCount + 1
            /\ session' = NULL
            /\ isActive' = FALSE
            /\ retrying' = TRUE
            /\ retryTimer' = TRUE
            /\ UNCHANGED <<cart, cleanups>>
       ELSE /\ isActive' = Cleanup.isActive
            /\ session'  = Cleanup.session
            /\ cart'     = Cleanup.cart
            /\ cleanups' = Cleanup.cleanups
            /\ UNCHANGED <<retryCount, retrying, retryTimer>>
  /\ conn' = "closed"
  /\ fx' = {IF code = AbnormalClose THEN "closeAbnormal" ELSE "closeOther"}
  /\ lastOrder' = NoOrder /\ lastBatch' = NoBatch
  /\ UNCHANGED <<wsVars, tsVars, registry, termWrites, gsCreated, flagVars,
                 greetingSent, startAwait, greetTimer, deferTimer,
                 farewellTimer, pending, transferNumber, obsVars, connects, closeCalled, phoneVars, frameVars, histVars>>

\* callbacks.onerror.
GsError ==
  /\ conn = "open" /\ ~startAwait
  /\ ApplyCleanup
  /\ fx' = {} /\ lastOrder' = NoOrder /\ lastBatch' = NoBatch
  /\ UNCHANGED <<wsVars, tsVars, registry, termWrites, gsCreated, flagVars,
                 retryCount, retrying, greetingSent, startAwait, greetTimer,
                 retryTimer, deferTimer, farewellTimer, pending,
                 transferNumber, obsVars, connects, closeCalled, phoneVars, frameVars, histVars>>

\* The 1 s reconnect timer: start() again (no createSession on a retry).
RetryTimerFire ==
  /\ retryTimer
  /\ retryTimer' = FALSE
  /\ conn' = "connecting"
  /\ startAwait' = TRUE
  /\ connects' = connects + 1
  /\ cart' = IF retrying THEN cart ELSE <<>>
  /\ fx' = {} /\ lastOrder' = NoOrder /\ lastBatch' = NoBatch
  /\ UNCHANGED <<wsVars, tsVars, registry, termWrites, gsCreated, isActive,
                 session, flagVars, retryCount, retrying, greetingSent,
                 greetTimer, deferTimer, farewellTimer, pending,
                 transferNumber, obsVars, closeCalled, cleanups, phoneVars, frameVars, histVars>>

\* The 8 s timer armed by close() during an order.
DeferTimerFire ==
  /\ deferTimer
  /\ deferTimer' = FALSE
  /\ ApplyCleanup
  /\ fx' = {} /\ lastOrder' = NoOrder /\ lastBatch' = NoBatch
  /\ UNCHANGED <<wsVars, tsVars, registry, termWrites, gsCreated, flagVars,
                 retryCount, retrying, greetingSent, startAwait, greetTimer,
                 retryTimer, farewellTimer, pending, transferNumber, obsVars, connects, closeCalled, phoneVars, frameVars, histVars>>

\* The 22 s timer armed after a confirmed order.
FarewellTimerFire ==
  /\ farewellTimer
  /\ farewellTimer' = FALSE
  /\ ApplyCleanup
  /\ fx' = {} /\ lastOrder' = NoOrder /\ lastBatch' = NoBatch
  /\ UNCHANGED <<wsVars, tsVars, registry, termWrites, gsCreated, flagVars,
                 retryCount, retrying, greetingSent, startAwait, greetTimer,
                 retryTimer, deferTimer, pending, transferNumber, obsVars, connects, closeCalled, phoneVars, frameVars, histVars>>

\* ======================================================================
\* GeminiSession: inbound messages and tool calls
\* ======================================================================

\* The fields a message handler reads and writes, threaded through the
\* handler's statements.  xfer: onTransferRequested was invoked; susp: the
\* continuation left behind when the handler suspended inside completeOrder.
Cur ==
  [ toolCallInProgress |-> toolCallInProgress,
    wasInterrupted     |-> wasInterrupted,
    agentSpeaking      |-> agentSpeaking,
    orderInProgress    |-> orderInProgress,
    transferTriggered  |-> transferTriggered,
    outputTranscript   |-> outputTranscript,
    cart               |-> cart,
    farewellTimer      |-> farewellTimer,
    lastOp             |-> lastOp,
    lastOrder          |-> NoOrder,
    lastBatch          |-> NoBatch,
    pend               |-> pending,
    fx                 |-> {},
    xfer               |-> FALSE,
    susp               |-> <<>> ]

\* TwilioStream.sendAudioToCaller(part): the frames it puts on the socket.
SendAudioToCaller(part) ==
  IF wsState # "open" THEN {}
  ELSE IF part = "bad" THEN {}
  ELSE {"mediaOut"}

\* TwilioStream.clearAudioBuffer(): the frames it puts on the socket.
\* (No handler of the call path invokes it.)
ClearAudioBuffer ==
  IF wsState # "open" THEN {} ELSE {"clear"}

\* One inlineData part of modelTurn: agentSpeaking is set, then tested.
ForwardPart(s, part) ==
  LET s1 == [s EXCEPT !.agentSpeaking = TRUE] IN
    IF s1.agentSpeaking
      THEN [s1 EXCEPT !.fx = @ \cup {"audioResp"} \cup SendAudioToCaller(part)]
      ELSE s1

RECURSIVE AudioParts(_, _)
AudioParts(s, parts) ==
  IF parts = <<>> THEN s
  ELSE AudioParts(ForwardPart(s, Head(parts)), Tail(parts))

\* The turnComplete branch fires the transfer iff this holds.
ShouldTransfer_NoLatch(triggered, transcript) ==
  Includes(transcript, TRANSFER_PHRASE)

ShouldTransfer(triggered, transcript) ==
  ~triggered /\ Includes(transcript, TRANSFER_PHRASE)

\* (the scan applied to the message's own fragment only)
MessageTail_FragmentOnly(s, m) ==
  LET s1 == [s EXCEPT !.outputTranscript = @ \o m.text,
                      !.fx = @ \cup {"tail"} \cup
                             (IF m.turnComplete THEN {"turnComplete"} ELSE {})]
  IN IF ~m.turnComplete THEN s1
     ELSE LET s2 == [s1 EXCEPT !.agentSpeaking = FALSE] IN
       IF ShouldTransfer(s2.transferTriggered, m.text)
         THEN [s2 EXCEPT !.transferTriggered = TRUE,
                         !.xfer = TRUE,
                         !.fx = @ \cup {"transferCb"}]
         ELSE s2

\* _handleMessage after the tool calls: transcript accumulation and the
\* turnComplete branch.  m carries the message's text and turnComplete.
MessageTail(s, m) ==
  LET s1 == [s EXCEPT !.outputTranscript = @ \o m.text,
                      !.fx = @ \cup {"tail"} \cup
                             (IF m.turnComplete THEN {"turnComplete"} ELSE {})]
  IN IF ~m.turnComplete THEN s1
     ELSE LET s2 == [s1 EXCEPT !.agentSpeaking = FALSE] IN
       IF ShouldTransfer(s2.transferTriggered, s2.outputTranscript)
         THEN [s2 EXCEPT !.transferTriggered = TRUE,
                         !.xfer = TRUE,
                         !.fx = @ \cup {"transferCb"}]
         ELSE s2

\* The response gate of _handleToolCalls.
ShouldRespond(snap, resp, interrupted) ==
  snap # NULL /\ Len(resp) > 0 /\ ~interrupted

\* End of _handleToolCalls: the response is sent or skipped, then both
\* flags are reset.
Respond_KeepsFlags(s, resp, snap) ==
  [s EXCEPT !.fx = @ \cup
              (IF ShouldRespond(snap, resp, s.wasInterrupted) THEN {"toolResp"}
               ELSE IF s.wasInterrupted THEN {"toolSkip"} ELSE {})]

Respond(s, resp, snap) ==
  [s EXCEPT !.fx = @ \cup
              (IF ShouldRespond(snap, resp, s.wasInterrupted) THEN {"toolResp"}
               ELSE IF s.wasInterrupted THEN {"toolSkip"} ELSE {}),
            !.wasInterrupted = FALSE,
            !.toolCallInProgress = FALSE]

\* The response entry pushed for a call: res is the result's text.
ResponseOf(fc, orderOk, res) ==
  [id |-> fc.id, name |-> fc.name, ok |-> orderOk, response |-> res]

\* _logAndValidateToolCall(fc): the arguments are compared with the declared
\* schema of the tool (manageOrder: quantity INTEGER and price NUMBER are
\* required) and every finding is written to the log with console.warn.  The
\* value is the set of findings logged; the function returns normally.
LogAndValidateToolCall(fc) ==
  IF fc.name = "manageOrder"
    THEN { k \in {"quantity", "price"} : fc.args[k] = Undefined }
    ELSE {}

\* responses.push(entry)
PushResponse_Front(resp, entry) == <<entry>> \o resp

PushResponse(resp, entry) == Append(resp, entry)

\* if (result?.orderId) setTimeout(() => this._cleanup(), 22000)
ArmsFarewell_Never(orderId) == FALSE

ArmsFarewell(orderId) == orderId # NULL

\* What a handleManageOrder call on the session cart c does to the arrays
\* that suspended handleCompleteOrder calls hold (ps): an add mutates the
\* session's array in place, so a call that still holds that array sees the
\* change; a remove assigns a new array to session.cart and the suspended
\* calls keep the old one.
ManageOrderAlias(ps, c, args) ==
  [k \in 1..Len(ps) |->
     IF c = NoCart \/ ~ps[k].live THEN ps[k]
     ELSE IF args.action = "add"
       THEN [ps[k] EXCEPT !.arr = handleManageOrder(ps[k].arr, args)]
     ELSE IF args.action = "remove"
       THEN [ps[k] EXCEPT !.live = FALSE]
     ELSE ps[k]]

\* session.cart = []: the suspended calls keep the array they hold.
Reassigned(ps) == [k \in 1..Len(ps) |-> [ps[k] EXCEPT !.live = FALSE]]

\* handleCompleteOrder up to its first await: the session and its cart
\* array are captured and attempt 1 issues the customer upsert.  The rest of
\* the batch is kept for when the call returns.
NewPipeline(s, fc, calls, resp, snap, m) ==
  [ fc      |-> fc,
    calls   |-> calls,
    resp    |-> resp,
    snap    |-> snap,
    msg     |-> m,
    attempt |-> 1,
    pc      |-> "upsert",
    dbCalls |-> 1,
    headers |-> 0,
    arr     |-> s.cart,
    live    |-> TRUE,
    begin   |-> s.cart,
    custOk  |-> FALSE,
    priced  |-> <<>>,
    total   |-> 0,
    items   |-> <<>> ]

\* The end of _handleToolCalls for a batch: the response is sent or skipped
\* and the flags are reset.  m carries the batch and the calls dispatched.
BatchEnd(s, resp, snap, m) ==
  LET send == ShouldRespond(snap, resp, s.wasInterrupted) IN
    [Respond(s, resp, snap) EXCEPT
       !.lastBatch = [batch      |-> m.batch,
                      dispatched |-> m.disp,
                      sends      |-> IF send THEN 1 ELSE 0,
                      sent       |-> IF send THEN resp ELSE <<>>,
                      pushed     |-> resp,
                      warned     |-> m.warned,
                      threw      |-> m.threw,
                      cartBefore |-> m.cart0,
                      cartAfter  |-> s.cart]]

\* The loop of _handleToolCalls from the call at the head of `calls`, with
\* `resp` the responses pushed so far and `snap` the session snapshot.  It
\* runs to the end of the handler (response, flag reset, message tail), or
\* stops at a completeOrder that awaits the database.
RECURSIVE RunCalls(_, _, _, _, _)
RunCalls(s, calls, resp, snap, m) ==
  IF calls = <<>> THEN MessageTail(BatchEnd(s, resp, snap, m), m)
  ELSE
    LET fc == Head(calls)
        m1 == [m EXCEPT !.disp = Append(@, fc.id),
                        !.warned = @ \cup (IF LogAndValidateToolCall(fc) # {}
                                             THEN {fc.id} ELSE {})]
    IN
      IF fc.name = "manageOrder"
        THEN RunCalls([s EXCEPT !.cart = handleManageOrder(s.cart, fc.args),
                                !.pend = ManageOrderAlias(s.pend, s.cart, fc.args),
                                !.lastOp = [args   |-> fc.args,
                                            before |-> s.cart,
                                            after  |-> handleManageOrder(s.cart, fc.args),
                                            result |-> ManageOrderResult(s.cart)]],
                      Tail(calls),
                      PushResponse(resp, ResponseOf(fc, FALSE,
                                                    ManageOrderResult(s.cart))),
                      snap, m1)
      ELSE IF fc.name = "completeOrder"
        THEN IF CompleteOrderImmediate(s.cart)
               THEN \* orderId null: lock taken and released, no timer
                    RunCalls([s EXCEPT
                                !.orderInProgress = FALSE,
                                !.farewellTimer = @ \/ ArmsFarewell(NULL),
                                !.lastOrder =
                                   [NoOrder EXCEPT
                                      !.result = IF s.cart = NoCart
                                                   THEN "Error: session not found"
                                                   ELSE "Error: cart is empty",
                                      !.begin  = s.cart,
                                      !.after  = s.cart,
                                      !.timer  = ArmsFarewell(NULL)]],
                             Tail(calls),
                             PushResponse(resp,
                               ResponseOf(fc, FALSE,
                                          IF s.cart = NoCart
                                            THEN "Error: session not found"
                                            ELSE "Error: cart is empty")),
                             snap, m1)
               ELSE [s EXCEPT !.orderInProgress = TRUE,
                              !.susp = << NewPipeline(s, fc, Tail(calls), resp,
                                                      snap, m1) >>]
      ELSE IF fc.name \in RoutedNames
        THEN \* the imported name is undefined: the call throws, the catch
             \* block substitutes the result
             RunCalls(s, Tail(calls),
                      PushResponse(resp, ResponseOf(fc, FALSE, BriefError)),
                      snap, [m1 EXCEPT !.threw = @ \cup {fc.id}])
      ELSE RunCalls(s, Tail(calls),
                    PushResponse(resp, ResponseOf(fc, FALSE, NotAvailable)),
                    snap, m1)

\* _handleToolCalls(functionCalls)
HandleToolCalls(s, m) ==
  RunCalls([s EXCEPT !.toolCallInProgress = TRUE], m.toolCall, <<>>, session,
           [text |-> m.text, turnComplete |-> m.turnComplete,
            batch |-> m.toolCall, disp |-> <<>>, warned |-> {}, threw |-> {},
            cart0 |-> s.cart, seq |-> msgCount + 1])

\* _handleMessage(m)
HandleMessage(s, m) ==
  IF m.interrupted
    THEN [s EXCEPT !.wasInterrupted = TRUE,
                   !.agentSpeaking = FALSE,
                   !.fx = {"interrupted"} \cup
                          (IF m.turnComplete THEN {"turnComplete"} ELSE {})]
    ELSE LET s1 == AudioParts(s, m.audio) IN
      IF m.toolCall # <<>>
        THEN HandleToolCalls(s1, m)
        ELSE MessageTail(s1, [text |-> m.text, turnComplete |-> m.turnComplete])

\* What a handler step leaves in the variables, r being the threaded record.
\* When the transfer callback was invoked, executeTransfer runs up to its
\* first await.
Commit(r) ==
  /\ toolCallInProgress' = r.toolCallInProgress
  /\ wasInterrupted'     = r.wasInterrupted
  /\ agentSpeaking'      = r.agentSpeaking
  /\ orderInProgress'    = r.orderInProgress
  /\ transferTriggered'  = r.transferTriggered
  /\ outputTranscript'   = r.outputTranscript
  /\ cart'               = r.cart
  /\ farewellTimer'      = r.farewellTimer
  /\ lastOp'             = r.lastOp
  /\ lastOrder'          = r.lastOrder
  /\ lastBatch'          = r.lastBatch
  /\ pending'            = r.pend \o r.susp
  /\ fx'                 = r.fx
  /\ ttRises' = IF ~transferTriggered /\ r.transferTriggered
                  THEN ttRises + 1 ELSE ttRises
  /\ IF r.xfer
       THEN /\ transferCalls' = transferCalls + 1
            /\ transferArg' = transferNumber
            /\ transferPc' = TransferEntry(transferNumber)
            /\ isTransfer' = (isTransfer \/ TransferEntry(transferNumber) = "rest")
       ELSE UNCHANGED <<transferCalls, transferArg, transferPc, isTransfer>>

\* Tokens of text that suspended handlers will still append.
RECURSIVE PendingText(_)
PendingText(ps) ==
  IF ps = <<>> THEN 0 ELSE Len(Head(ps).msg.text) + PendingText(Tail(ps))

\* callbacks.onmessage(m): _handleMessage up to its end or to the first
\* completeOrder that awaits the database; n caps the handlers suspended
\* at once.
GsMessageWithin(m, n) ==
  /\ conn = "open" /\ ~startAwait
  /\ msgCount < MaxMsgs
  /\ Len(outputTranscript) + PendingText(pending) + Len(m.text) <= MaxTranscript
  /\ LET r == HandleMessage(Cur, m) IN
       /\ r.susp # <<>> => Len(pending) < n
       /\ Commit(r)
  /\ msgCount' = msgCount + 1
  /\ intrPending' = IF m.interrupted THEN TRUE
                    ELSE IF m.turnComplete THEN FALSE
                    ELSE intrPending
  /\ UNCHANGED <<wsVars, callSid, isStarted, isClosed, callDbRecord, startPc,
                 closePc, registry, termWrites, lifeVars, deferTimer,
                 transferNumber, closeSawTransfer, closeAfterError,
                 orders, apologies, lifeObs, phoneVars, frameVars>>

GsMessage(m) == GsMessageWithin(m, MaxPending)

\* p without its i-th element
RemoveAt(p, i) == SubSeq(p, 1, i - 1) \o SubSeq(p, i + 1, Len(p))

\* ======================================================================
\* orderManager: the completeOrder pipeline
\* ======================================================================

\* What the database answers to a call: a row (ok) or an error object.
DbOutcomes == {"ok", "error"}

\* session.cart after handleCompleteOrder returned: a new empty array after
\* a successful attempt (when the store still has the session), untouched
\* after the apology.
CartAfterOrder_AlwaysCleared(ok, c) == IF c # NoCart THEN <<>> ELSE c

CartAfterOrder(ok, c) == IF ok /\ c # NoCart THEN <<>> ELSE c

\* The variables a pipeline step between two awaits leaves alone.
pipeFrame == <<wsVars, tsVars, registry, termWrites, lifeVars, flagVars,
               deferTimer, farewellTimer, cart, transferNumber, histVars,
               lastOp, lifeObs, phoneVars, frameVars>>

\* The variables the step in which handleCompleteOrder returns leaves alone.
settleFrame == <<wsVars, callSid, isStarted, isClosed, callDbRecord, startPc,
                 closePc, registry, termWrites, lifeVars, deferTimer,
                 transferNumber, msgCount, intrPending, closeSawTransfer,
                 closeAfterError, lifeObs, phoneVars, frameVars>>

\* handleCompleteOrder returns for the i-th suspended batch: the confirmation
\* (cart reassigned to an empty array, order id) when ok, the apology
\* otherwise.  The finally block of _handleToolCalls releases the order lock,
\* the farewell timer is armed on an order id, and the batch runs on to its
\* end or to the next suspension.
Settle(i, ok, itemsOk) ==
  LET p     == pending[i]
      rest  == RemoveAt(pending, i)
      oid   == IF ok THEN "order" ELSE NULL
      after == CartAfterOrder(ok, cart)
      s0    == [Cur EXCEPT
                  !.orderInProgress = FALSE,
                  !.cart = after,
                  !.pend = IF ok THEN Reassigned(rest) ELSE rest,
                  !.farewellTimer = @ \/ ArmsFarewell(oid),
                  !.lastOrder = [result   |-> IF ok THEN "confirmed"
                                              ELSE "apology",
                                 orderId  |-> oid,
                                 attempts |-> p.attempt,
                                 dbCalls  |-> p.dbCalls,
                                 begin    |-> p.begin,
                                 after    |-> after,
                                 quiet    |-> (p.live /\ p.arr = p.begin),
                                 custOk   |-> p.custOk,
                                 itemsOk  |-> itemsOk,
                                 timer    |-> ArmsFarewell(oid)]]
  IN Commit(RunCalls(s0, p.calls, PushResponse(p.resp,
                       ResponseOf(p.fc, ok, IF ok THEN "confirmed" ELSE "apology")),
                     p.snap, p.msg))

\* The customer upsert of the current attempt resolves.  An error is only
\* logged.  The total is computed from the array the call holds, and the
\* order insert is issued.
PipeUpsert(i, out) ==
  /\ i \in 1..Len(pending)
  /\ pending[i].pc = "upsert"
  /\ pending' = [pending EXCEPT ![i] =
                   [pending[i] EXCEPT !.custOk  = (out = "ok"),
                                      !.priced  = pending[i].arr,
                                      !.total   = OrderTotal(pending[i].arr),
                                      !.pc      = "insert",
                                      !.dbCalls = @ + 1]]
  /\ fx' = {} /\ lastOrder' = NoOrder /\ lastBatch' = NoBatch
  /\ UNCHANGED <<pipeFrame, orders, apologies>>

\* The order row written by the insert of the i-th suspended call.
OrderRow(p) ==
  [ seq        |-> p.msg.seq,
    begin      |-> p.begin,
    priced     |-> p.priced,
    total      |-> p.total,
    custOk     |-> p.custOk,
    items      |-> <<>>,
    itemsState |-> "pending" ]

\* The order insert resolves.  On a row, the item rows are mapped from the
\* array the call holds and their insert is issued.  On an error the attempt
\* throws: withRetry waits 1 s before the next attempt, or rethrows after the
\* last one and handleCompleteOrder returns the apology.
PipeInsert(i, out) ==
  /\ i \in 1..Len(pending)
  /\ pending[i].pc = "insert"
  /\ IF out = "ok"
       THEN /\ orders' = orders \cup {OrderRow(pending[i])}
            /\ pending' = [pending EXCEPT ![i] =
                             [pending[i] EXCEPT
                                !.items   = OrderItems(pending[i].arr),
                                !.pc      = "items",
                                !.headers = @ + 1,
                                !.dbCalls = @ + 1]]
            /\ fx' = {} /\ lastOrder' = NoOrder /\ lastBatch' = NoBatch
            /\ UNCHANGED <<pipeFrame, apologies>>
       ELSE IF pending[i].attempt < MaxAttempts
         THEN /\ pending' = [pending EXCEPT ![i] =
                               [pending[i] EXCEPT !.pc = "delay"]]
              /\ fx' = {} /\ lastOrder' = NoOrder /\ lastBatch' = NoBatch
              /\ UNCHANGED <<pipeFrame, orders, apologies>>
         ELSE /\ Settle(i, FALSE, FALSE)
              /\ apologies' = apologies \cup {pending[i].begin}
              /\ UNCHANGED <<settleFrame, orders>>

\* The 1 s delay of withRetry ends: the next attempt issues its upsert.
PipeDelay(i) ==
  /\ i \in 1..Len(pending)
  /\ pending[i].pc = "delay"
  /\ pending' = [pending EXCEPT ![i] =
                   [pending[i] EXCEPT !.attempt = @ + 1,
                                      !.custOk  = FALSE,
                                      !.pc      = "upsert",
                                      !.dbCalls = @ + 1]]
  /\ fx' = {} /\ lastOrder' = NoOrder /\ lastBatch' = NoBatch
  /\ UNCHANGED <<pipeFrame, orders, apologies>>

\* if (itemsErr) console.error(...): the error of the order-items insert
\* is logged, the attempt does not throw.
ItemsErrorThrows_Always(out) == out = "error"

ItemsErrorThrows(out) == FALSE

\* The order-items insert resolves.  An error is only logged.  The attempt
\* returns, session.cart is cleared and handleCompleteOrder returns the
\* confirmation.
PipeItems(i, out) ==
  /\ i \in 1..Len(pending)
  /\ pending[i].pc = "items"
  /\ orders' = { IF o.seq = pending[i].msg.seq
                   THEN [o EXCEPT !.items = IF out = "ok" THEN pending[i].items
                                            ELSE <<>>,
                                  !.itemsState = IF out = "ok" THEN "written"
                                                 ELSE "failed"]
                   ELSE o : o \in orders }
  /\ IF ~ItemsErrorThrows(out)
       THEN /\ Settle(i, TRUE, out = "ok")
            /\ UNCHANGED <<settleFrame, apologies>>
       ELSE IF pending[i].attempt < MaxAttempts
         THEN /\ pending' = [pending EXCEPT ![i] =
                               [pending[i] EXCEPT !.pc = "delay"]]
              /\ fx' = {} /\ lastOrder' = NoOrder /\ lastBatch' = NoBatch
              /\ UNCHANGED <<pipeFrame, apologies>>
         ELSE /\ Settle(i, FALSE, FALSE)
              /\ apologies' = apologies \cup {pending[i].begin}
              /\ UNCHANGED settleFrame

\* handleCompleteOrder taken as one step, for the i-th suspended batch: ok
\* when an attempt succeeded, not ok when the retries were exhausted.
CompleteOrderResume(i, ok) ==
  /\ i \in 1..Len(pending)
  /\ Settle(i, ok, ok)
  /\ UNCHANGED <<settleFrame, orders, apologies>>

\* ======================================================================
\* Specification
\* ======================================================================

\* Every handler and every environment event, over the whole message
\* vocabulary.
Next ==
  \/ \E sid \in {CallSid, NULL} : OnStart(sid)
  \/ \E ok \in BOOLEAN : OnStartResume(ok)
  \/ \E kind \in {"ok", "missing", "bad"} : OnMedia(kind)
  \/ OnStop
  \/ WsError
  \/ WsClose
  \/ CloseResume
  \/ TransferRestOk
  \/ TransferRestFail
  \/ GsOpen
  \/ StartResume
  \/ ConnectFail
  \/ GreetTimerFire
  \/ \E code \in CloseCodes : GsClose(code)
  \/ GsError
  \/ RetryTimerFire
  \/ DeferTimerFire
  \/ FarewellTimerFire
  \/ \E m \in Messages : GsMessage(m)
  \/ \E i \in 1..MaxPending, ok \in BOOLEAN : CompleteOrderResume(i, ok)

Spec == Init /\ [][Next]_vars

\* ---------------------------------------------------------------------
\* The call's life on the media leg: start, stop, socket error and close,
\* and a transfer that is in flight, succeeds or fails.  The model leg
\* opens and delivers transcript and turnComplete messages.
CallMsgs ==
  { m \in Messages :
      /\ ~m.interrupted /\ m.audio = <<>> /\ m.toolCall = <<>>
      /\ m.text \in { <<>>, TRANSFER_PHRASE }
      /\ (m.text # <<>> \/ m.turnComplete) }

NextCall ==
  \/ \E sid \in {CallSid, NULL} : OnStart(sid)
  \/ \E ok \in BOOLEAN : OnStartResume(ok)
  \/ OnStop
  \/ WsError
  \/ WsClose
  \/ CloseResume
  \/ TransferRestOk
  \/ TransferRestFail
  \/ GsOpen
  \/ StartResume
  \/ \E m \in CallMsgs : GsMessage(m)

SpecCall == Init /\ [][NextCall]_vars

\* ---------------------------------------------------------------------
\* The model leg's message handling against caller media: audio, barge-in,
\* tool batches (with completeOrder suspended on the database) and
\* turnComplete, on a started call.
ModelMsgs ==
  { m \in Messages :
      /\ m.text = <<>> /\ m.audio # <<"bad">>
      /\ (m.interrupted => m.audio = <<>> /\ m.toolCall = <<>>) }

NextModel ==
  \/ OnStart(CallSid)
  \/ \E ok \in BOOLEAN : OnStartResume(ok)
  \/ OnMedia("ok")
  \/ WsError
  \/ GsOpen
  \/ StartResume
  \/ GsError
  \/ \E m \in ModelMsgs : GsMessage(m)
  \/ \E i \in 1..MaxPending, ok \in BOOLEAN : CompleteOrderResume(i, ok)

SpecModel == Init /\ [][NextModel]_vars

\* ---------------------------------------------------------------------
\* Transfer detection: transcript fragments, turnComplete and barge-in,
\* with a tool batch whose tail runs after the order pipeline settled.
TransferMsgs ==
  { m \in Messages :
      /\ m.audio = <<>>
      /\ m.toolCall \in { <<>>, <<AddCall, CompleteCall>> }
      /\ (m.interrupted => m.toolCall = <<>> /\ m.text = <<>>) }

NextTransfer ==
  \/ OnStart(CallSid)
  \/ \E ok \in BOOLEAN : OnStartResume(ok)
  \/ GsOpen
  \/ StartResume
  \/ \E m \in TransferMsgs : GsMessage(m)
  \/ \E i \in 1..MaxPending, ok \in BOOLEAN : CompleteOrderResume(i, ok)

SpecTransfer == Init /\ [][NextTransfer]_vars

\* ---------------------------------------------------------------------
\* Orders: cart edits and completeOrder, whose pipeline is suspended at each
\* database call and at the retry delay while other messages are handled.
OrderBatches ==
  { <<AddCall>>, <<LassiCall>>, <<RemoveCall>>, <<CompleteCall>>,
    <<AddCall, LassiCall, CompleteCall>> }

NextOrder ==
  \/ OnStart(CallSid)
  \/ \E ok \in BOOLEAN : OnStartResume(ok)
  \/ GsOpen
  \/ StartResume
  \/ GsError
  \/ \E b \in OrderBatches : GsMessage(ToolMsg(b))
  \/ \E i \in 1..MaxPending, out \in DbOutcomes : PipeUpsert(i, out)
  \/ \E i \in 1..MaxPending, out \in DbOutcomes : PipeInsert(i, out)
  \/ \E i \in 1..MaxPending : PipeDelay(i)
  \/ \E i \in 1..MaxPending, out \in DbOutcomes : PipeItems(i, out)

SpecOrder == Init /\ [][NextOrder]_vars

\* ---------------------------------------------------------------------
\* The cart: manageOrder calls, one per toolCall message, on a call whose
\* order session exists or was already deleted.
NextCart ==
  \/ OnStart(CallSid)
  \/ \E ok \in BOOLEAN : OnStartResume(ok)
  \/ GsOpen
  \/ StartResume
  \/ GsError
  \/ \E a \in CartArgs : GsMessage(CartMsg(a))

SpecCart == Init /\ [][NextCart]_vars

\* ---------------------------------------------------------------------
\* The tool router: batches whose calls break the schema, name a tool whose
\* handler is not exported, or name a tool the router does not know, next
\* to well-formed cart edits.
ToolBatches ==
  { <<AddCall>>, <<RemoveCall>>, <<NoQuantityCall>>,
    <<SearchCall, AddCall>>, <<UnknownCall, LassiCall>>,
    <<AddCall, NoQuantityCall, LassiCall>> }

NextTools ==
  \/ OnStart(CallSid)
  \/ \E ok \in BOOLEAN : OnStartResume(ok)
  \/ GsOpen
  \/ StartResume
  \/ GsError
  \/ \E b \in ToolBatches : GsMessage(ToolMsg(b))

SpecTools == Init /\ [][NextTools]_vars

\* ---------------------------------------------------------------------
\* The life of the model leg: open, greeting, abnormal and normal closes,
\* reconnects, and the media leg's close (the stop event) arriving at any
\* point of it, also while an order is in flight.  The call record exists.
LifeBatches == { <<AddCall, CompleteCall>> }

NextLife ==
  \/ OnStart(CallSid)
  \/ OnStartResume(TRUE)
  \/ OnStop
  \/ CloseResume
  \/ GsOpen
  \/ StartResume
  \/ ConnectFail
  \/ GreetTimerFire
  \/ \E code \in CloseCodes : GsClose(code)
  \/ RetryTimerFire
  \/ DeferTimerFire
  \/ FarewellTimerFire
  \/ \E b \in LifeBatches : GsMessage(ToolMsg(b))
  \/ \E i \in 1..MaxPending, ok \in BOOLEAN : CompleteOrderResume(i, ok)

SpecLife == Init /\ [][NextLife]_vars

\* ---------------------------------------------------------------------
\* sanitizePhone applied to a raw value.
ApplySanitizePhone(raw) ==
  /\ phoneRaw' = raw
  /\ phoneOut' = sanitizePhone(raw)
  /\ UNCHANGED <<wsVars, tsVars, registry, termWrites, lifeVars, flagVars,
                 deferTimer, farewellTimer, pending, cart, transferNumber,
                 fx, lastOrder, lastBatch, obsVars, lifeObs, frameVars,
                 histVars>>

NextPhone == \E raw \in RawPhones : ApplySanitizePhone(raw)

SpecPhone == Init /\ [][NextPhone]_vars

\* ---------------------------------------------------------------------
\* The codec applied to a frame: decoded and encoded again, and converted
\* for the model from the frame and from its re-encoding.
ApplyCodec(f) ==
  /\ frameIn' = f
  /\ frameRe' = pcm16ToMulaw(mulawToPcm16(f))
  /\ frameOut' = twilioAudioToGemini(f)
  /\ frameOutRe' = twilioAudioToGemini(pcm16ToMulaw(mulawToPcm16(f)))
  /\ UNCHANGED <<pcmIn, pcmOut>>
  /\ UNCHANGED <<wsVars, tsVars, registry, termWrites, lifeVars, flagVars,
                 deferTimer, farewellTimer, pending, cart, transferNumber,
                 fx, lastOrder, lastBatch, obsVars, lifeObs, phoneVars,
                 histVars>>

NextCodec == \E f \in Frames : ApplyCodec(f)

SpecCodec == Init /\ [][NextCodec]_vars

\* ---------------------------------------------------------------------
\* The upsampler applied to a PCM16 buffer.
ApplyUpsample(pcm) ==
  /\ pcmIn' = pcm
  /\ pcmOut' = upsample8kTo16k(pcm)
  /\ UNCHANGED <<wsVars, tsVars, registry, termWrites, lifeVars, flagVars,
                 deferTimer, farewellTimer, pending, cart, transferNumber,
                 fx, lastOrder, lastBatch, obsVars, lifeObs, phoneVars,
                 frameIn, frameRe, frameOut, frameOutRe, histVars>>

NextUpsample == \E pcm \in PcmBuffers : ApplyUpsample(pcm)

SpecUpsample == Init /\ [][NextUpsample]_vars

\* ---------------------------------------------------------------------
\* The farewell: orders that are confirmed, refused (empty cart) or given
\* up, on a leg that stays connected, errors, is closed by the model side
\* or is closed by the media leg.  The reconnect branch of onclose is left
\* to SpecLife: it needs greetingSent false, that is a close within 500 ms
\* of onopen, and an order is taken after the greeting.  A timer that is
\* armed fires: the event loop runs every timer callback that is due.
FarewellBatches == { <<CompleteCall>>, <<AddCall, CompleteCall>> }

NextFarewell ==
  \/ OnStart(CallSid)
  \/ OnStartResume(TRUE)
  \/ OnStop
  \/ CloseResume
  \/ GsOpen
  \/ StartResume
  \/ GsError
  \/ GsClose(1000)
  \/ DeferTimerFire
  \/ FarewellTimerFire
  \/ \E b \in FarewellBatches : GsMessage(ToolMsg(b))
  \/ \E i \in 1..MaxPending, ok \in BOOLEAN : CompleteOrderResume(i, ok)

SpecFarewell ==
  Init /\ [][NextFarewell]_vars /\ WF_farewellTimer(FarewellTimerFire)

\* Overlapping orders: onmessage callbacks are not serialized, so a second
\* toolCall message is handled while the completeOrder of the first still
\* awaits the database; the media leg may hang up at any point.
OverlapBatches == { <<AddCall, CompleteCall>> }

NextOverlap ==
  \/ OnStart(CallSid)
  \/ OnStartResume(TRUE)
  \/ OnStop
  \/ CloseResume
  \/ GsOpen
  \/ StartResume
  \/ DeferTimerFire
  \/ FarewellTimerFire
  \/ \E b \in OverlapBatches : GsMessageWithin(ToolMsg(b), MaxOverlap)
  \/ \E i \in 1..MaxOverlap, ok \in BOOLEAN : CompleteOrderResume(i, ok)

SpecOverlap == Init /\ [][NextOverlap]_vars

\* The flags of _handleToolCalls: batches whose handlers return, throw or are
\* unknown, orders that are confirmed or given up, a barge-in at any point
\* (also while completeOrder awaits), and a model leg that errors under a
\* running batch.  Every awaited database call settles, so a suspended
\* handleCompleteOrder returns.
InterruptedMsg ==
  [ interrupted  |-> TRUE,
    audio        |-> <<>>,
    toolCall     |-> <<>>,
    text         |-> <<>>,
    turnComplete |-> FALSE ]

FlagBatches ==
  { <<AddCall>>, <<SearchCall, AddCall>>, <<UnknownCall, LassiCall>>,
    <<CompleteCall>>, <<AddCall, CompleteCall>> }

FlagMsgs == { ToolMsg(b) : b \in FlagBatches } \cup { InterruptedMsg }

OrderSettles ==
  \E i \in 1..MaxPending, ok \in BOOLEAN : CompleteOrderResume(i, ok)

NextFlags ==
  \/ OnStart(CallSid)
  \/ OnStartResume(TRUE)
  \/ GsOpen
  \/ StartResume
  \/ GsError
  \/ \E m \in FlagMsgs : GsMessage(m)
  \/ OrderSettles

SpecFlags == Init /\ [][NextFlags]_vars /\ WF_pending(OrderSettles)

\* ======================================================================
\* Claims
\* ======================================================================

\* The call's start event was processed and carried a callSid.
CallKnown == isStarted /\ callSid # NULL

\* C1: for every call whose start event was processed (callSid known),
\* exactly one terminal call-status write is issued during the call's life:
\* never two, and one once the close path ran and no transfer is in flight.
C1_ExactlyOneTerminalWrite ==
  CallKnown =>
    /\ Len(termWrites) <= 1
    /\ (isClosed /\ transferPc # "rest") => Len(termWrites) = 1

\* C2: at teardown of a started call the status applied is escalated if the
\* close found a transfer, failed if the close followed a socket error, and
\* completed otherwise.
C2_TerminalStatusBySource ==
  (CallKnown /\ isClosed) =>
    IF closeSawTransfer
      THEN \A k \in 1..Len(termWrites) : termWrites[k] = "escalated"
      ELSE IF closeAfterError
        THEN termWrites = <<"failed">>
        ELSE termWrites = <<"completed">>

\* C3: onAudio forwards a caller frame to the model (sendRealtimeInput)
\* exactly when the session is active with a live handle and no tool call is
\* in progress; in every other state the frame is dropped.
C3_OnAudioGate ==
  /\ "rtInput" \in fx => "onAudio" \in fx
  /\ "onAudio" \in fx =>
       ("rtInput" \in fx <=>
          (isActive /\ session # NULL /\ ~toolCallInProgress))

\* C3 witness: a frame reached onAudio on an active session with a live
\* handle and was dropped because a tool call was in progress.
C3_Witness ==
  /\ "onAudio" \in fx /\ "rtInput" \notin fx
  /\ isActive /\ session # NULL /\ toolCallInProgress

\* C4: while a tool batch is between its receipt and its response (suspended
\* inside completeOrder), toolCallInProgress is true and no caller audio is
\* forwarded, also when another toolCall message is handled meanwhile.
C4_GateHeldWhileBatchInFlight ==
  pending # <<>> => (toolCallInProgress /\ "rtInput" \notin fx)

\* C5: sendToolResponse never fires when an interrupted message has been
\* received and no turnComplete has been received since.
C5_NoResponseAfterInterrupt ==
  "toolResp" \in fx => ~intrPending

\* C6: when a message carrying interrupted is received, agentSpeaking is
\* cleared and a clear frame is sent on the media leg if its socket is open.
C6_InterruptClearsAndFlushes ==
  "interrupted" \in fx =>
    /\ ~agentSpeaking
    /\ wsState = "open" => "clear" \in fx

\* C7: after an interrupted message, model audio that arrives before the
\* next turnComplete is dropped and never sent to the caller.
C7_NoAudioAfterInterrupt ==
  "mediaOut" \in fx => ~intrPending

\* C8: over any sequence of model messages the transfer callback is invoked
\* at most once and transferTriggered rises at most once.
C8_TransferAtMostOnce ==
  transferCalls <= 1 /\ ttRises <= 1

\* C8 witness: the transfer fired, and a later message with turnComplete ran
\* the scan again on the same transcript without firing it.
C8_Witness ==
  /\ transferCalls = 1 /\ transferTriggered
  /\ {"tail", "turnComplete"} \subseteq fx /\ "transferCb" \notin fx
  /\ Includes(outputTranscript, TRANSFER_PHRASE)

C10_Original ==
  transferPc = "restFailed" =>
    /\ ~transferTriggered
    /\ (isClosed /\ ~closeSawTransfer) =>
         (Len(termWrites) = 1 /\ termWrites[1] \in {"completed", "failed"})

\* C10 amended: when the transfer REST call fails, the media leg's
\* isTransfer flag is rolled back to false (transferTriggered stays
\* latched), and a close that comes after the failure applies exactly one
\* normal terminal status.
C10_RollbackThenNormalTerminal ==
  transferPc = "restFailed" =>
    /\ ~isTransfer
    /\ transferTriggered
    /\ (isClosed /\ ~closeSawTransfer) =>
         (Len(termWrites) = 1 /\ termWrites[1] \in {"completed", "failed"})

\* C10 witness: the REST call failed and the call was closed afterwards
\* with status completed.
C10_Witness ==
  /\ transferPc = "restFailed" /\ isClosed /\ ~closeSawTransfer
  /\ termWrites = <<"completed">>

\* C11: after any manageOrder calls, every cart entry whose name is a key
\* of the price map carries the map's price whatever the model supplied, and
\* an add of a name that is not in the map succeeds and leaves an entry that
\* carries the model-supplied price.
C11_MapPriceElseSuppliedPrice ==
  /\ cart # NoCart =>
       \A i \in 1..Len(cart) :
         cart[i].itemName \in DOMAIN PRICE_MAP =>
           cart[i].price = PRICE_MAP[cart[i].itemName]
  /\ ( /\ lastOp.args.action = "add"
       /\ lastOp.before # NoCart
       /\ lastOp.args.itemName \notin DOMAIN PRICE_MAP ) =>
       /\ lastOp.result = "Cart updated successfully."
       /\ \E i \in 1..Len(lastOp.after) :
            /\ lastOp.after[i].itemName = lastOp.args.itemName
            /\ lastOp.after[i].price = lastOp.args.price

\* C12: an add of a name already in the cart keeps the number of entries,
\* replaces that entry's quantity and price, and its notes only when the
\* supplied notes are non-empty; an add of a new name appends one entry.
C12_AddUpdatesOrAppends ==
  LET a == lastOp.args
      b == lastOp.before
      c == lastOp.after
  IN (a.action = "add" /\ b # NoCart) =>
       IF \E k \in 1..Len(b) : b[k].itemName = a.itemName
         THEN /\ Len(c) = Len(b)
              /\ \A k \in 1..Len(b) :
                   IF b[k].itemName = a.itemName
                     THEN c[k] = [itemName |-> a.itemName,
                                  quantity |-> a.quantity,
                                  price    |-> CorrectPrice(a),
                                  notes    |-> IF a.notes # "" THEN a.notes
                                               ELSE b[k].notes]
                     ELSE c[k] = b[k]
         ELSE c = Append(b, [itemName |-> a.itemName,
                             quantity |-> a.quantity,
                             price    |-> CorrectPrice(a),
                             notes    |-> a.notes])

\* C12 witness: an add without notes changed the quantity of an entry that
\* had notes, in a cart of two entries, and the notes were kept.
C12_Witness ==
  LET a == lastOp.args
      b == lastOp.before
      c == lastOp.after
  IN /\ a.action = "add" /\ a.notes = "" /\ b # NoCart /\ Len(b) = 2
     /\ \E k \in 1..Len(b) :
          /\ b[k].itemName = a.itemName
          /\ b[k].notes # ""
          /\ b[k].quantity # a.quantity
          /\ c[k].quantity = a.quantity
          /\ c[k].notes = b[k].notes

\* C13: remove(name) deletes every entry whose name equals name, leaves the
\* other entries and their order unchanged, and returns the success token
\* also when nothing matched.
C13_RemoveDropsExactMatches ==
  LET a == lastOp.args
      b == lastOp.before
      c == lastOp.after
      Other(e) == e.itemName # a.itemName
  IN (a.action = "remove" /\ b # NoCart) =>
       /\ c = SelectSeq(b, Other)
       /\ lastOp.result = "Cart updated successfully."

\* C13 witness: a remove deleted one entry of a cart of two.
C13_Witness ==
  LET a == lastOp.args
      b == lastOp.before
      c == lastOp.after
  IN /\ a.action = "remove" /\ b # NoCart /\ Len(b) = 2 /\ Len(c) = 1
     /\ c[1].itemName # a.itemName
     /\ lastOp.result = "Cart updated successfully."

\* C14: completeOrder on a session whose cart is empty returns the
\* cart-is-empty error with a null order id, issues no database call and
\* arms no farewell timer.
C14_EmptyCartNoWrite ==
  ( /\ lastOrder.result # "none"
    /\ lastOrder.begin # NoCart
    /\ lastOrder.begin = <<>> ) =>
    /\ lastOrder.result = "Error: cart is empty"
    /\ lastOrder.orderId = NULL
    /\ lastOrder.dbCalls = 0
    /\ ~lastOrder.timer

\* C14 witness: the error was returned on an empty cart with nothing
\* persisted and no farewell timer pending, and the batch was answered.
C14_Witness ==
  /\ lastOrder.result = "Error: cart is empty"
  /\ cart = <<>> /\ orders = {} /\ ~farewellTimer
  /\ "toolResp" \in fx

\* C15: when the attempts are exhausted completeOrder returns the apology
\* with a null order id after exactly MaxAttempts attempts, and the cart is
\* as it was when the invocation began (no other call having edited it and
\* the session not having been deleted meanwhile); a completeOrder that
\* succeeds leaves the cart empty.
C15_ApologyKeepsCart ==
  /\ lastOrder.result = "apology" =>
       /\ lastOrder.orderId = NULL
       /\ lastOrder.attempts = MaxAttempts
       /\ (lastOrder.quiet /\ lastOrder.after # NoCart) =>
            lastOrder.after = lastOrder.begin
  /\ (lastOrder.result = "confirmed" /\ lastOrder.after # NoCart) =>
       lastOrder.after = <<>>

\* C15 witness: a completeOrder succeeded on a cart for which an earlier
\* invocation had returned the apology, and cleared it.
C15_Witness ==
  /\ lastOrder.result = "confirmed"
  /\ lastOrder.quiet
  /\ lastOrder.begin \in apologies
  /\ cart = <<>>

\* C16: an invocation makes at most MaxAttempts attempts, and it returns
\* after fewer only if its last attempt had no failing step: a failed
\* customer upsert, order insert or items insert is followed by another
\* attempt while fewer than MaxAttempts were made.
C16_RetryAfterAnyFailedStep ==
  /\ \A k \in 1..Len(pending) : pending[k].attempt <= MaxAttempts
  /\ lastOrder.attempts <= MaxAttempts
  /\ ( /\ lastOrder.result \in {"confirmed", "apology"}
       /\ lastOrder.attempts < MaxAttempts ) =>
       (lastOrder.custOk /\ lastOrder.itemsOk)

\* C17: every order row persisted (status confirmed) had its customer upsert
\* succeed in the same attempt and its item rows written, and completeOrder
\* reports success only then.
C17_OrderOnlyWithCustomerAndItems ==
  /\ \A o \in orders : o.custOk /\ o.itemsState # "failed"
  /\ lastOrder.result = "confirmed" =>
       (lastOrder.custOk /\ lastOrder.itemsOk)

\* C18: for every successful completeOrder the item rows written are those
\* of the cart entries present when the invocation began, and the persisted
\* total is computed from those entries.
C18_ItemsAndTotalOfCartAtBegin ==
  \A o \in orders :
    o.itemsState = "written" =>
      /\ o.items = OrderItems(o.begin)
      /\ o.total = OrderTotal(o.begin)

\* The cart of scenario S1: Masala Dosa x1 and Mango Lassi x1 at map prices.
S1Cart ==
  << [itemName |-> "Masala Dosa", quantity |-> 1, price |-> 1149, notes |-> ""],
     [itemName |-> "Mango Lassi", quantity |-> 1, price |-> 649, notes |-> ""] >>

\* C19 as stated: the order of scenario S1 is persisted with total 19.47.
C19_Original ==
  \A o \in orders : o.priced = S1Cart => o.total = 1947

\* C19 amended: the order of scenario S1 is persisted with total 19.46
\* (17.98 * 1.0825 = 19.46335, rounded to the cent).
C19_TotalOfScenarioS1 ==
  \A o \in orders : o.priced = S1Cart => o.total = 1946

\* C19 witness: scenario S1 ran in one batch and its order was written with
\* both item rows.
C19_Witness ==
  \E o \in orders :
    /\ o.begin = S1Cart /\ o.priced = S1Cart
    /\ o.itemsState = "written" /\ Len(o.items) = 2
    /\ o.total = 1946

\* C20: the calls of a batch are dispatched in the listed order, and when
\* the batch is answered it is by one sendToolResponse whose entries are,
\* in the same order, the ids and names of the calls listed.
C20_DispatchAndResponseInListedOrder ==
  lastBatch.batch # <<>> =>
    /\ lastBatch.dispatched =
         [k \in 1..Len(lastBatch.batch) |-> lastBatch.batch[k].id]
    /\ lastBatch.sends <= 1
    /\ lastBatch.sends = 1 =>
         /\ Len(lastBatch.sent) = Len(lastBatch.batch)
         /\ \A k \in 1..Len(lastBatch.batch) :
              /\ lastBatch.sent[k].id = lastBatch.batch[k].id
              /\ lastBatch.sent[k].name = lastBatch.batch[k].name

\* C20 witness: a batch of three calls, suspended in completeOrder, was
\* answered with three entries once the order was confirmed.
C20_Witness ==
  /\ Len(lastBatch.batch) = 3
  /\ lastBatch.sends = 1 /\ Len(lastBatch.sent) = 3
  /\ lastOrder.result = "confirmed"
  /\ "toolResp" \in fx

\* C21: a tool call whose arguments violate the declared schema (here: a
\* manageOrder add without the required quantity) is answered with the
\* brief-error result and its handler does not run: the batch that lists
\* only such calls leaves the cart as it was.
C21_InvalidArgsRejected ==
  \A k \in 1..Len(lastBatch.pushed) :
    lastBatch.pushed[k].id \in lastBatch.warned =>
      /\ lastBatch.pushed[k].response = BriefError
      /\ (Len(lastBatch.batch) = 1 => lastBatch.cartAfter = lastBatch.cartBefore)

\* C22: when a handler throws (searchMenu and collectCustomerDetails are
\* not exported by orderManager) or the tool name is unknown, that call
\* still gets a user-safe result, every call of the batch is dispatched and
\* the batch response is sent once, with one entry per call.
C22_ThrowAndUnknownContained ==
  lastBatch.batch # <<>> =>
    /\ lastBatch.dispatched = [k \in 1..Len(lastBatch.batch) |-> lastBatch.batch[k].id]
    /\ lastBatch.sends = 1
    /\ Len(lastBatch.sent) = Len(lastBatch.batch)
    /\ \A k \in 1..Len(lastBatch.batch) :
         /\ lastBatch.batch[k].name \in {"searchMenu", "collectCustomerDetails"}
              => lastBatch.sent[k].response = BriefError
         /\ lastBatch.batch[k].name \notin {"searchMenu", "collectCustomerDetails",
                                            "manageOrder", "completeOrder"}
              => lastBatch.sent[k].response = NotAvailable
         /\ lastBatch.batch[k].name = "manageOrder"
              => lastBatch.sent[k].response \in {"Cart updated successfully.",
                                                 "Error: session not found"}

\* C22 witness: a batch whose first call threw ran its second call (the
\* cart grew) and was answered with two entries, the first one the
\* substituted result.
C22_Witness ==
  /\ lastBatch.sends = 1 /\ Len(lastBatch.sent) = 2
  /\ lastBatch.threw = {"f6"}
  /\ lastBatch.sent[1].response = BriefError
  /\ lastBatch.cartBefore # NoCart
  /\ Len(lastBatch.cartAfter) = Len(lastBatch.cartBefore) + 1
\* C23: close() called while an order is in progress tears nothing down in
\* that step (the leg stays as it was, the cart stays) and arms the 8 s
\* timer, whose firing runs the teardown; close() called while no order is
\* in progress runs the teardown in that step and arms no timer.
C23_CloseDefersDuringOrder ==
  [][ /\ (closeCalled = "no" /\ closeCalled' # "no") =>
           IF orderInProgress
             THEN /\ deferTimer'
                  /\ UNCHANGED <<isActive, session, cart>>
             ELSE /\ UNCHANGED deferTimer
                  /\ ~isActive'
                  /\ isActive => (session' = NULL /\ cart' = NoCart)
      /\ (deferTimer /\ ~deferTimer') =>
           /\ ~isActive'
           /\ isActive => (session' = NULL /\ cart' = NoCart) ]_vars

\* C23 witness: close() was called during an order; the leg is still
\* active with its cart and the deferred timer is pending.
C23_Witness ==
  /\ closeCalled = "deferred" /\ deferTimer
  /\ isActive /\ session # NULL /\ cart # NoCart /\ Len(cart) = 1

\* C24: an abnormal close (1011) before the greeting was sent, with fewer
\* than 2 reconnects made, schedules a reconnect that keeps the cart; every
\* other close runs the teardown and schedules none.  retryCount never
\* exceeds 2 and at most 3 connections are made for a call.
C24_ReconnectAtMostTwice ==
  /\ [](retryCount <= 2 /\ connects <= 3)
  /\ [][ /\ ("closeAbnormal" \in fx' \/ "closeOther" \in fx') =>
             IF "closeAbnormal" \in fx' /\ ~greetingSent /\ retryCount < 2
               THEN /\ retryCount' = retryCount + 1
                    /\ retryTimer'
                    /\ cart' = cart
               ELSE /\ retryCount' = retryCount
                    /\ UNCHANGED retryTimer
                    /\ ~isActive'
                    /\ isActive => cart' = NoCart
        /\ (retryTimer /\ ~retryTimer') =>
             (cart' = cart /\ connects' = connects + 1) ]_vars

\* C24 witness: the third connection was closed abnormally before any
\* greeting: no reconnect is pending and the cart is gone.
C24_Witness ==
  /\ "closeAbnormal" \in fx
  /\ retryCount = 2 /\ connects = 3 /\ ~greetingSent
  /\ ~retryTimer /\ ~isActive /\ cart = NoCart

\* C28: once the media leg has called close() on a Session with no order
\* in progress, the model leg is inactive, holds no session handle, and the
\* cart is discarded, from then on.
C28_ClosedStaysClosed ==
  closeCalled = "idle" => (~isActive /\ session = NULL /\ cart = NoCart)

\* C25: once the media leg has run its close path for the call (onCallEnded
\* was invoked for its callSid), the registry has no entry for the call.
C25_NoEntryAfterClose ==
  (closePc = "done" /\ callSid = CallSid) => CallSid \notin registry

\* C26: a registry entry (a Session with its model leg and cart) exists only
\* for a call whose call record was created.
C26_SessionHasCallRecord ==
  (CallSid \in registry \/ (gsCreated /\ callSid = CallSid)) =>
    callDbRecord # NULL

\* C27: a media event handled before the start event is dropped: nothing is
\* converted or forwarded and no field of either leg changes; a media event
\* handled while _onStart awaits the call-record insert reaches no model
\* session.
C27_MediaBeforeStartDropped ==
  [][ "media" \in fx' =>
        /\ ~isStarted =>
             /\ fx' = {"media"}
             /\ UNCHANGED <<tsVars, wsVars, lifeVars, flagVars, registry,
                            cart, pending, termWrites>>
        /\ startPc = "awaitCreate" =>
             ("onAudio" \notin fx' /\ "rtInput" \notin fx') ]_vars

\* C27 witness: a media event was handled before the start event.
C27_Witness ==
  /\ fx = {"media"}
  /\ ~isStarted /\ startPc = "none" /\ callSid = NULL

\* C29: the value sanitizePhone returns is the literal 'unknown' or consists
\* only of digits, plus, hyphen, parentheses and the space character.
C29_OnlyPhoneCharacters ==
  \/ phoneOut = Unknown
  \/ \A k \in 1..Len(phoneOut) : phoneOut[k] \in {"5", "+", "-", "(", ")", " "}

\* C30: decoding a mu-law frame and encoding it again gives the frame back,
\* byte for byte, so the conversion for the model gives the same output on
\* both.
C30_MulawRoundTrip ==
  /\ frameRe = frameIn
  /\ frameOutRe = frameOut

\* C30 witness: a frame of the two extreme code words was decoded (to the
\* largest negative and the smallest positive sample), upsampled to four
\* samples, and encoded back.
C30_Witness ==
  /\ frameIn = <<0, 255>> /\ frameRe = <<0, 255>>
  /\ frameOut = <<-32223, -16062, 99, 99>>

\* C31: for a buffer of n >= 1 samples upsample8kTo16k returns 2n samples:
\* the sample at an even (0-based) position 2i is in[i], the one at 2i+1 is
\* the floor of the mean of in[i] and in[i+1] for i < n-1, and the last one
\* is in[n-1].  (Positions below are 1-based.)
C31_UpsampleShape ==
  LET n == Len(pcmIn) IN
    /\ Len(pcmOut) = 2 * n
    /\ \A i \in 1..n : pcmOut[2 * i - 1] = pcmIn[i]
    /\ \A i \in 1..(n - 1) :
         /\ 2 * pcmOut[2 * i] <= pcmIn[i] + pcmIn[i + 1]
         /\ pcmIn[i] + pcmIn[i + 1] < 2 * pcmOut[2 * i] + 2
    /\ n >= 1 => pcmOut[2 * n] = pcmIn[n]

\* C31 witness: a buffer whose neighbouring samples have an odd, negative
\* sum was upsampled: the mean -2.5 became -3, and the last sample is held.
C31_Witness ==
  /\ pcmIn = <<-3, -2, 1>>
  /\ pcmOut = <<-3, -3, -2, -1, 1, 1>>

\* C32: the greeting is sent at most once per Session (it is sent only
\* while greetingSent is false, sets it, and nothing resets it) and only
\* while the leg is active.
C32_GreetingOnceWhileActive ==
  [][ /\ "greeting" \in fx' => (~greetingSent /\ greetingSent' /\ isActive /\ isActive')
      /\ greetingSent => greetingSent' ]_vars

\* C32 witness: the greeting was sent on the third connection, after two
\* abnormal closes and reconnects.
C32_Witness ==
  /\ "greeting" \in fx
  /\ greetingSent /\ retryCount = 2 /\ connects = 3 /\ isActive

\* C33: a completeOrder that returned an order id arms the farewell timer,
\* and the teardown eventually runs: the leg is inactive without session
\* handle and the cart is deleted.  A completeOrder that returned no order
\* id arms no timer and leaves the leg as it was.
C33_FarewellAfterConfirmedOrder ==
  /\ [](lastOrder.orderId # NULL =>
          /\ lastOrder.timer
          /\ <>(~isActive /\ session = NULL /\ cart = NoCart))
  /\ [][ (lastOrder'.result # "none" /\ lastOrder'.orderId = NULL) =>
           /\ ~lastOrder'.timer
           /\ farewellTimer' = farewellTimer
           /\ UNCHANGED <<isActive, session>> ]_vars

\* C33 witness: an order was confirmed on an active leg and the farewell
\* timer is pending.
C33_Witness ==
  /\ lastOrder.result = "confirmed" /\ lastOrder.orderId # NULL
  /\ farewellTimer /\ isActive /\ session # NULL /\ cart = <<>>

\* C34: while any completeOrder invocation is in flight orderInProgress is
\* true, so a close() during an in-flight order is deferred, never done at
\* once.
C34_FlagHeldWhileOrderInFlight ==
  /\ [](pending # <<>> => orderInProgress)
  /\ [][ (closeCalled' # closeCalled /\ pending # <<>>) =>
           closeCalled' = "deferred" ]_vars

\* C35: after any sequence of manageOrder add and remove calls the cart
\* holds at most one entry per itemName.
C35_OneEntryPerItemName ==
  cart # NoCart =>
    \A i, j \in 1..Len(cart) :
      cart[i].itemName = cart[j].itemName => i = j

\* An add of an item that is already in a two-item cart has just returned.
C35_Witness ==
  /\ lastOp.args.action = "add"
  /\ lastOp.before # NoCart /\ Len(lastOp.before) = 2
  /\ FindItem(lastOp.before, lastOp.args.itemName) # 0
  /\ cart = lastOp.after /\ Len(cart) = 2

\* C36: the teardown of _cleanup (session.close(), deleteSession,
\* onSessionEnded) is executed at most once for a GeminiSession, whatever
\* the order of close(), the timers and the model leg's callbacks.
C36_TeardownAtMostOnce == cleanups <= 1

\* C37: when the model leg ends for good (the connect of start() fails, or
\* the leg closes and the close is not retried) the cart entry is gone from
\* the store and the teardown with onSessionEnded has run, also when the
\* leg never opened.
C37_EndForGoodDropsCart ==
  [][ (conn # "closed" /\ conn' = "closed" /\ ~retryTimer') =>
        (cart' = NoCart /\ cleanups' >= 1) ]_vars

\* C38: the response of a toolCall batch is skipped for an interruption only
\* when the batch arrives in the interrupted turn: not when a turnComplete
\* was received after the last interrupted message.
C38_SkipOnlyInInterruptedTurn ==
  [][ (msgCount' # msgCount /\ "toolSkip" \in fx') => intrPending ]_vars

\* C39: every toolCall message is followed by a state in which both
\* toolCallInProgress and wasInterrupted are false: at once when the batch
\* runs to its end without awaiting, eventually when it is suspended inside
\* completeOrder; whether handlers return or throw, the order is confirmed
\* or given up, and the response is sent or skipped.
C39_FlagsResetAfterBatch ==
  /\ [](lastBatch.batch # <<>> => (~toolCallInProgress /\ ~wasInterrupted))
  /\ [](pending # <<>> => <>(~toolCallInProgress /\ ~wasInterrupted))

\* An order was given up after a barge-in during the wait: the response was
\* skipped and both flags are false.
C39_Witness ==
  /\ lastBatch.batch # <<>> /\ "toolSkip" \in fx
  /\ lastOrder.result = "apology"
  /\ ~toolCallInProgress /\ ~wasInterrupted

\* C40: one completeOrder invocation inserts at most one order header row,
\* over all of its attempts.
C40_OneHeaderPerInvocation ==
  \A k \in 1..Len(pending) : pending[k].headers <= 1

\* A retry has written the header: the insert of an earlier attempt failed,
\* the insert of the second or third attempt returned the row.
C40_Witness ==
  \E k \in 1..Len(pending) :
    /\ pending[k].attempt >= 2 /\ pending[k].headers = 1
    /\ pending[k].pc = "items"
    /\ \E o \in orders : o.seq = pending[k].msg.seq

====
